---- MODULE Spec2Model ----
(***************************************************************************)
(* Model of the YT Sprint Tool reconciliation engine:                      *)
(*   ytsprint/lib_sprint.py   SprintService                                *)
(*   ytsprint/lib_yt_api.py   YouTrackAPI                                  *)
(*   lib_date_utils.py        DateUtils                                    *)
(* The remote tracker (board sprints, field bundle, default values) is the *)
(* state the gateway calls read and write; one service call runs as a      *)
(* sequence of gateway calls, one step each.                               *)
(***************************************************************************)
EXTENDS Integers, Sequences, FiniteSets, TLC

(***************************************************************************)
(* Calendar arithmetic of datetime.date, on proleptic Gregorian ordinals   *)
(* (0001-01-01 has ordinal 1).                                             *)
(***************************************************************************)

\* date.toordinal() of 1970-01-01: the epoch of datetime.timestamp()
EpochOrdinal == 1969 * 365 + (1969 \div 4) - (1969 \div 100) + (1969 \div 400) + 1

MsPerDay == 24 * 60 * 60 * 1000

is_leap(year) == year % 4 = 0 /\ (year % 100 # 0 \/ year % 400 = 0)

days_before_year(year) ==
    LET y == year - 1 IN y * 365 + (y \div 4) - (y \div 100) + (y \div 400)

\* ordinal of January 1st of the year
ymd2ord_jan1(year) == days_before_year(year) + 1

\* the year field of the date with the given ordinal (datetime._ord2ymd)
ord2year(ordinal) ==
    LET n0   == ordinal - 1
        n400 == n0 \div (400 * 365 + 97)
        r400 == n0 % (400 * 365 + 97)
        n100 == r400 \div (100 * 365 + 24)
        r100 == r400 % (100 * 365 + 24)
        n4   == r100 \div (4 * 365 + 1)
        r4   == r100 % (4 * 365 + 1)
        n1   == r4 \div 365
        year == n400 * 400 + 1 + n100 * 100 + n4 * 4 + n1
    IN  IF n1 = 4 \/ n100 = 4 THEN year - 1 ELSE year

\* Monday of ISO week 1: the week holding the year's first Thursday
isoweek1monday(year) ==
    LET firstday     == ymd2ord_jan1(year)
        firstweekday == (firstday + 6) % 7
        week1monday  == firstday - firstweekday
    IN  IF firstweekday > 3 THEN week1monday + 7 ELSE week1monday

\* a faulty check of the week: every year is given 53 weeks
iso_week_valid_to_53(year, week) ==
    /\ 1 <= year /\ year <= 9999
    /\ 0 < week /\ week <= 53

\* date.fromisocalendar raises ValueError unless the year is in
\* MINYEAR..MAXYEAR and the week is one of the year's ISO weeks (53 only in
\* the years that have one)
iso_week_valid(year, week) ==
    /\ 1 <= year /\ year <= 9999
    /\ \/ (0 < week /\ week < 53)
       \/ /\ week = 53
          /\ LET first_weekday == ymd2ord_jan1(year) % 7
             IN  first_weekday = 4 \/ (first_weekday = 3 /\ is_leap(year))

\* date.fromisocalendar(year, week, day).toordinal(), for a valid week
fromisocalendar(year, week, day) ==
    isoweek1monday(year) + (week - 1) * 7 + (day - 1)

\* a faulty isocalendar: the last days of December stay in their own year
isocalendar_same_year(ordinal) ==
    LET year        == ord2year(ordinal)
        week1monday == isoweek1monday(year)
        week        == (ordinal - week1monday) \div 7
        day         == (ordinal - week1monday) % 7
    IN  IF week < 0
        THEN LET w1 == isoweek1monday(year - 1)
             IN  <<year - 1, ((ordinal - w1) \div 7) + 1, ((ordinal - w1) % 7) + 1>>
        ELSE <<year, week + 1, day + 1>>

\* date.isocalendar() of the date with the given ordinal: <<year, week, weekday>>
isocalendar(ordinal) ==
    LET year        == ord2year(ordinal)
        week1monday == isoweek1monday(year)
        week        == (ordinal - week1monday) \div 7
        day         == (ordinal - week1monday) % 7
    IN  IF week < 0
        THEN LET w1 == isoweek1monday(year - 1)
             IN  <<year - 1, ((ordinal - w1) \div 7) + 1, ((ordinal - w1) % 7) + 1>>
        ELSE IF week >= 52 /\ ordinal >= isoweek1monday(year + 1)
             THEN <<year + 1, 1, day + 1>>
             ELSE <<year, week + 1, day + 1>>

\* date.weekday(): Monday is 0
weekday(ordinal) == (ordinal + 6) % 7

(***************************************************************************)
(* DateUtils.  A UTC millisecond timestamp is held as <<days, ms>>, the    *)
(* whole days since the epoch and the milliseconds within the day, that is *)
(* the integer days * MsPerDay + ms (which does not fit 32 bits).          *)
(***************************************************************************)

Pow2(n) == 2 ^ n

\* the binary exponent of the float holding n: 2^exponent <= n < 2 * 2^exponent
\* (n is the seconds of a time of 1971 to 2037: 2^22 <= n < 2^31)
exponent(n) ==
    CHOOSE e \in 22..30 : Pow2(e) <= n /\ (e = 30 \/ n < Pow2(e + 1))

\* whole + num / den rounded to an integer as IEEE 754 rounds: to the
\* nearest, and to the even one of two equally near
round_half_even(whole, num, den) ==
    LET q == whole + (num \div den)
        r == num % den
    IN  IF 2 * r < den THEN q
        ELSE IF 2 * r > den THEN q + 1
        ELSE IF q % 2 = 0 THEN q ELSE q + 1

\* datetime.timestamp() of a time `seconds` and `milli` thousandths after
\* the epoch is the float nearest to seconds + milli / 1000.  A float has 53
\* significant bits, so with k = 52 - exponent(seconds) it is
\* seconds + timestamp_fraction / p for p = 2^k.  (With the seconds of 1971
\* to 2037, every number here fits 32 bits.)
timestamp_fraction(milli, p) ==
    round_half_even(milli * (p \div 1000), milli * (p % 1000), 1000)

\* timestamp() * 1000: does the product reach 2^(exponent(seconds) + 10)?
\* That is seconds + m / p >= 1.024 * b for b = 2^exponent(seconds), or
\* d + m / p >= c / 125 for d = seconds - b - 3 * (b div 125) and
\* c = 3 * (b mod 125).
product_carries(d, c, m, p) ==
    IF d >= 3 THEN TRUE
    ELSE IF d < 0 THEN FALSE
    ELSE IF c - 125 * d <= 0 THEN TRUE
    ELSE IF c - 125 * d >= 125 THEN FALSE
    ELSE m >= (c - 125 * d) * (p \div 125)
                 + (((c - 125 * d) * (p % 125) + 124) \div 125)

\* int(timestamp() * 1000) - seconds * 1000: the product 1000 * m / p is
\* rounded to 53 significant bits, which are units of 1 / unit, and int()
\* drops what is left of the fraction; den is p / (8 * unit)
product_ms(m, den, unit) ==
    round_half_even(125 * (m \div den), 125 * (m % den), den) \div unit

ms_of_fraction(seconds, m, b, k) ==
    IF product_carries(seconds - b - 3 * (b \div 125), 3 * (b % 125), m,
                       Pow2(k))
    THEN product_ms(m, 128, Pow2(k - 10))
    ELSE product_ms(m, 64, Pow2(k - 9))

ms_of_exponent(seconds, milli, e) ==
    ms_of_fraction(seconds, timestamp_fraction(milli, Pow2(52 - e)), Pow2(e),
                   52 - e)

ms_of_second(seconds, milli) == ms_of_exponent(seconds, milli, exponent(seconds))

\* iso_week_range_utc, lines 53-54: int(t.timestamp() * 1000) of the UTC
\* time t, `second` seconds and `milli` thousandths into the day `days`
int_timestamp_ms(days, second, milli) ==
    <<days, second * 1000 + ms_of_second(days * 86400 + second, milli)>>

\* iso_week_range_utc, lines 50-56, for the two dates
range_of_days(monday, friday) ==
    [monday    |-> monday,
     friday    |-> friday,
     start_ms  |-> int_timestamp_ms(monday - EpochOrdinal, 0, 0),
     finish_ms |-> int_timestamp_ms(friday - EpochOrdinal,
                                    23 * 3600 + 59 * 60 + 59, 999)]

\* a faulty range: the week ends with its Sunday
iso_week_range_utc_weekend(year, week) ==
    range_of_days(fromisocalendar(year, week, 1), fromisocalendar(year, week, 7))

\* DateUtils.iso_week_range_utc: [monday, friday, start_ms, finish_ms]
iso_week_range_utc(year, week) ==
    range_of_days(fromisocalendar(year, week, 1), fromisocalendar(year, week, 5))

\* a faulty name: the week is not padded to two digits
format_sprint_name_unpadded(year, week) ==
    ToString(year) \o "." \o ToString(week) \o " Sprint"

\* DateUtils.format_sprint_name: f"{year}.{week:02d} Sprint"
format_sprint_name(year, week) ==
    ToString(year) \o "." \o (IF 0 <= week /\ week < 10 THEN "0" ELSE "")
                   \o ToString(week) \o " Sprint"


(***************************************************************************)
(* Text.  A str is a sequence of one-character strings where the code      *)
(* reads it character by character (the week token), and a TLC string      *)
(* where the code only compares it.  None is << >> and a value x that may  *)
(* be None is <<x>>.                                                       *)
(***************************************************************************)

None == << >>
Some(x) == <<x>>

DigitChars == <<"0", "1", "2", "3", "4", "5", "6", "7", "8", "9">>

IsDigit(c) == \E d \in 1..10 : DigitChars[d] = c

DigitVal(c) == (CHOOSE d \in 1..10 : DigitChars[d] = c) - 1

\* str.split("."): the parts between the dots
RECURSIVE split_dot(_)
split_dot(s) ==
    IF \A k \in 1..Len(s) : s[k] # "."
    THEN <<s>>
    ELSE LET k == CHOOSE j \in 1..Len(s) :
                      s[j] = "." /\ \A h \in 1..(j - 1) : s[h] # "."
         IN  <<SubSeq(s, 1, k - 1)>> \o split_dot(SubSeq(s, k + 1, Len(s)))

\* str.strip() for blanks
RECURSIVE strip(_)
strip(s) ==
    IF s = << >> THEN s
    ELSE IF Head(s) = " " THEN strip(Tail(s))
    ELSE IF s[Len(s)] = " " THEN strip(SubSeq(s, 1, Len(s) - 1))
    ELSE s

\* the digits of an int() literal: digits, single underscores between them
int_body_ok(s) ==
    /\ s # << >>
    /\ \A k \in 1..Len(s) : IsDigit(s[k]) \/ s[k] = "_"
    /\ IsDigit(s[1]) /\ IsDigit(s[Len(s)])
    /\ \A k \in 1..(Len(s) - 1) : ~(s[k] = "_" /\ s[k + 1] = "_")

RECURSIVE int_body_val(_, _)
int_body_val(s, acc) ==
    IF s = << >> THEN acc
    ELSE IF Head(s) = "_" THEN int_body_val(Tail(s), acc)
    ELSE int_body_val(Tail(s), acc * 10 + DigitVal(Head(s)))

\* int() of a literal without blanks around it
int_of_stripped(t) ==
    IF t # << >> /\ Head(t) = "-"
    THEN IF int_body_ok(Tail(t))
         THEN [ok |-> TRUE, val |-> 0 - int_body_val(Tail(t), 0)]
         ELSE [ok |-> FALSE, val |-> 0]
    ELSE IF t # << >> /\ Head(t) = "+"
    THEN IF int_body_ok(Tail(t))
         THEN [ok |-> TRUE, val |-> int_body_val(Tail(t), 0)]
         ELSE [ok |-> FALSE, val |-> 0]
    ELSE IF int_body_ok(t)
         THEN [ok |-> TRUE, val |-> int_body_val(t, 0)]
         ELSE [ok |-> FALSE, val |-> 0]

\* int(text): [ok, val]; ok is FALSE where int() raises ValueError
py_int(text) == int_of_stripped(strip(text))

\* parse_year_week, lines 74-78: the two numbers, and the range of the week
year_week_of(y, w) ==
    IF ~y.ok \/ ~w.ok THEN [ok |-> FALSE, year |-> 0, week |-> 0]
    ELSE IF ~(1 <= w.val /\ w.val <= 53) THEN [ok |-> FALSE, year |-> 0, week |-> 0]
    ELSE [ok |-> TRUE, year |-> y.val, week |-> w.val]

\* parse_year_week, line 73: the unpacking of the two parts
year_week_of_parts(parts) ==
    IF Len(parts) # 2 THEN [ok |-> FALSE, year |-> 0, week |-> 0]
    ELSE year_week_of(py_int(parts[1]), py_int(parts[2]))

\* DateUtils.parse_year_week: [ok, year, week]; ok is FALSE where it raises
\* argparse.ArgumentTypeError
parse_year_week(spec) == year_week_of_parts(split_dot(spec))

\* DateUtils.get_current_week, for the date today gives
get_current_week_of_2025_30(today) == [ok |-> TRUE, year |-> 2025, week |-> 30]

get_current_week(today) ==
    [ok   |-> TRUE,
     year |-> isocalendar(today)[1],
     week |-> isocalendar(today)[2]]

\* process_week_parameter, lines 119-122: "if week_arg" is false for None
\* and for ""
resolve_week(week_arg, today) ==
    IF week_arg # None /\ week_arg[1] # << >>
    THEN parse_year_week(week_arg[1])
    ELSE get_current_week(today)

\* process_week_parameter, lines 124-127, for a week and its range
week_fields(year, week, range) ==
    [result      |-> "ok",
     year        |-> year,
     week        |-> week,
     sprint_name |-> format_sprint_name(year, week),
     start_ms    |-> range.start_ms,
     finish_ms   |-> range.finish_ms]

\* what is left of the fields when the week cannot be resolved
week_failed(why) ==
    [result |-> why, year |-> 0, week |-> 0, sprint_name |-> "",
     start_ms |-> <<0, 0>>, finish_ms |-> <<0, 0>>]

week_of_parsed(parsed) ==
    IF ~parsed.ok THEN week_failed("format_error")
    ELSE IF ~iso_week_valid(parsed.year, parsed.week) THEN week_failed("value_error")
    ELSE week_fields(parsed.year, parsed.week,
                     iso_week_range_utc(parsed.year, parsed.week))

\* DateUtils.process_week_parameter.  result is "ok", "format_error"
\* (ArgumentTypeError of parse_year_week) or "value_error" (ValueError of
\* date.fromisocalendar, which iso_week_range_utc does not catch)
process_week_parameter(week_arg, today) ==
    week_of_parsed(resolve_week(week_arg, today))

(***************************************************************************)
(* YouTrackAPI: the pure parts of the gateway.                             *)
(* An id of a bundle value is a str held as the sequence of its digits     *)
(* (<<1, 0>> is "10"), because the code sorts ids, as str.                 *)
(***************************************************************************)

\* truthiness of an Optional[str]: None and "" are falsy
Truthy(opt) == opt # None /\ opt[1] # ""

\* the same for the id of a bundle value, a str held as its digits
TruthyId(opt) == opt # None /\ opt[1] # << >>

\* str < str
RECURSIVE str_less(_, _)
str_less(a, b) ==
    IF b = << >> THEN FALSE
    ELSE IF a = << >> THEN TRUE
    ELSE IF a[1] # b[1] THEN a[1] < b[1]
    ELSE str_less(Tail(a), Tail(b))

\* a faulty sorted: the greatest first
RECURSIVE sorted_desc(_)
sorted_desc(S) ==
    IF S = {} THEN << >>
    ELSE LET m == CHOOSE x \in S : \A y \in S \ {x} : str_less(y, x)
         IN  <<m>> \o sorted_desc(S \ {m})

\* sorted(set of str)
RECURSIVE sorted(_)
sorted(S) ==
    IF S = {} THEN << >>
    ELSE LET m == CHOOSE x \in S : \A y \in S \ {x} : str_less(x, y)
         IN  <<m>> \o sorted(S \ {m})

\* set(list)
Range(list) == {list[k] : k \in 1..Len(list)}

\* the "$top" of a GET: at most that many entries of the collection
top(list, n) == IF Len(list) <= n THEN list ELSE SubSeq(list, 1, n)

\* the id of the first entry whose name matches, else None:
\* the loop of find_board_id, find_sprint_id, find_project_id and
\* find_bundle_value_by_name; .get("id") of an entry without an id is None
first_id_by_name(entries, name) ==
    IF \E k \in 1..Len(entries) : entries[k].name = name
    THEN LET k == CHOOSE j \in 1..Len(entries) :
                      /\ entries[j].name = name
                      /\ \A h \in 1..(j - 1) : entries[h].name # name
         IN  IF "id" \in DOMAIN entries[k] THEN Some(entries[k].id) ELSE None
    ELSE None

\* a faulty find_board_id: the first board, whatever its name
find_board_id_any(agiles, board_name) ==
    IF agiles = << >> THEN None ELSE Some(agiles[1].id)

find_board_id(agiles, board_name) == first_id_by_name(agiles, board_name)

\* a faulty find_sprint_id: it compares the name with the id of the sprint
find_sprint_id_by_id(sprint_list, sprint_name) ==
    IF \E k \in 1..Len(sprint_list) : sprint_list[k].id = sprint_name
    THEN Some(sprint_name)
    ELSE None

find_sprint_id(sprint_list, sprint_name) == first_id_by_name(sprint_list, sprint_name)

\* a faulty sprint_exists: it reads the sprints of another, empty board
sprint_exists_elsewhere(sprint_list, sprint_name) ==
    find_sprint_id(<< >>, sprint_name) # None

sprint_exists(sprint_list, sprint_name) == find_sprint_id(sprint_list, sprint_name) # None

find_project_id(projects, project_name) == first_id_by_name(projects, project_name)

\* a faulty find_bundle_value_by_name: the first value, whatever its name
first_bundle_value(bundle_values, value_name) ==
    IF bundle_values = << >> THEN None ELSE Some(bundle_values[1].id)

find_bundle_value_by_name(bundle_values, value_name) ==
    first_id_by_name(bundle_values, value_name)

\* a faulty find_project_field: the field named Sprints, whatever is asked
find_project_field_sprints(fields, field_name) ==
    IF \E k \in 1..Len(fields) : fields[k].name = "Sprints"
    THEN Some(fields[CHOOSE j \in 1..Len(fields) : fields[j].name = "Sprints"])
    ELSE None

\* set_project_default_sprint: the first project field of that name, else None
find_project_field(fields, field_name) ==
    IF \E k \in 1..Len(fields) : fields[k].name = field_name
    THEN Some(fields[CHOOSE j \in 1..Len(fields) :
                          /\ fields[j].name = field_name
                          /\ \A h \in 1..(j - 1) : fields[h].name # field_name])
    ELSE None

\* requests.Response.raise_for_status raises for 4xx and 5xx
raise_for_status(status) == 400 <= status /\ status < 600

\* a faulty get: the status of the response is not looked at
get_raises_never(status) == FALSE

\* YouTrackAPI.get and .post raise on an error status
get_raises(status) == raise_for_status(status)

\* a faulty post: the status of the response is not looked at
post_raises_never(status) == FALSE

post_raises(status) == raise_for_status(status)

\* a faulty delete: it raises on every error status, 404 too
delete_raises_strict(status) == status \notin {200, 204} /\ raise_for_status(status)

\* YouTrackAPI.delete raises on an error status other than 404
delete_raises(status) == status \notin {200, 204, 404} /\ raise_for_status(status)

\* update_field_default_values: the ids of the fetched defaults that have one
current_ids(fetched) == {d \in Range(fetched) : d # << >>}

\* a faulty diff: no current default is removed
to_remove_none(fetched, value_ids) == {}

\* a faulty diff: every current default is removed
to_remove_all(fetched, value_ids) == current_ids(fetched)

to_remove_of(fetched, value_ids) == current_ids(fetched) \ Range(value_ids)

\* a faulty diff: every wanted value is added
to_add_all(fetched, value_ids) == Range(value_ids)

to_add_of(fetched, value_ids) == Range(value_ids) \ current_ids(fetched)

\* the order in which the removals are issued
removal_order(fetched, value_ids) == sorted(to_remove_of(fetched, value_ids))

\* the order in which the additions are issued
addition_order(fetched, value_ids) == sorted(to_add_of(fetched, value_ids))


(***************************************************************************)
(* Bounds of the model.                                                    *)
(***************************************************************************)

\* service calls made one after the other in one behaviour
MaxRuns == 2

\* edits of the default values by somebody else while one call runs
MaxEdits == 1

\* largest forward count given to a run
MaxForward == 2

\* length of the longest value id list given to update_field_default_values
MaxValueIds == 2

(***************************************************************************)
(* The remote tracker: what the GETs of the gateway answer.                *)
(***************************************************************************)

\* GET /api/agiles
Agiles == <<[id |-> "board-1", name |-> "Board"]>>

\* GET /api/admin/projects
Projects == <<[id |-> "proj-1", name |-> "Project"]>>

\* the bundle of the sprint field: one value per sprint
BundleValues ==
    <<[id |-> <<2>>,    name |-> "2025.30 Sprint"],
      [id |-> <<1, 0>>, name |-> "2023.51 Sprint"],
      [id |-> <<9>>,    name |-> "2026.52 Sprint"]>>

\* GET /api/admin/projects/{id}/customFields
ProjectFields ==
    <<[id |-> "field-0", name |-> "Priority", values |-> << >>],
      [id |-> "field-1", name |-> "Sprints",  values |-> BundleValues]>>

ValueIds == {BundleValues[k].id : k \in 1..Len(BundleValues)}

\* the page sizes the GETs ask for
TopLookup == 1000

\* the statuses of a failed call, and of a successful one
ErrorStatuses == {403, 500}

StatusOk == 200

StatusNotFound == 404

(***************************************************************************)
(* The arguments the calls are made with.                                  *)
(***************************************************************************)

Tok(year_digits, week_digits) == year_digits \o <<".">> \o week_digits

Week2025_30 == Some(Tok(<<"2", "0", "2", "5">>, <<"3", "0">>))

\* --week tokens of weeks that have a value in the bundle
GoodWeeks ==
    {Week2025_30,
     Some(Tok(<<"2", "0", "2", "6">>, <<"5", "2">>))}

\* None (the current week, which has no value in the bundle), a week 53 in
\* a year of 52 weeks, a malformed token
OtherWeeks ==
    {None,
     Some(Tok(<<"2", "0", "2", "5">>, <<"5", "3">>)),
     Some(<<"2", "0", "2", "5", "-", "3", "0">>)}

\* date.today() when the week is not given: Wednesday 2025-07-30
Todays == {fromisocalendar(2025, 31, 3)}

\* base weeks given to ensure_future_sprints and ensure_sprint_on_board
BaseWeeks == {<<2025, 30>>, <<2026, 52>>}

\* --board, --project, --field: the names the tracker knows
GoodTarget == [board |-> "Board", project |-> "Project", field |-> "Sprints"]

\* each of them in turn a name the tracker does not know
BadTargets ==
    {[GoodTarget EXCEPT !.board = "Nowhere"],
     [GoodTarget EXCEPT !.project = "Nothing"],
     [GoodTarget EXCEPT !.field = "Stage"]}

\* --forward
Forwards == (0 - 1)..MaxForward

\* the arguments of run_sync_once: a good week with every forward count,
\* every good week with the largest, and each thing that can be wrong, one
\* at a time
RunSyncArgs ==
    {[target |-> GoodTarget, week |-> Week2025_30, forward |-> f] : f \in Forwards}
    \cup {[target |-> GoodTarget, week |-> w, forward |-> MaxForward] : w \in GoodWeeks}
    \cup {[target |-> GoodTarget, week |-> w, forward |-> 1] : w \in OtherWeeks}
    \cup {[target |-> t, week |-> Week2025_30, forward |-> 1] : t \in BadTargets}

\* the arguments of create_sprint_for_week
CreateArgs ==
    {[board |-> "Board", week |-> w] : w \in GoodWeeks \cup OtherWeeks}
    \cup {[board |-> "Nowhere", week |-> Week2025_30]}

\* the arguments of ensure_sprint_on_board
EnsureArgs ==
    {[board |-> "Board", yw |-> yw] : yw \in BaseWeeks}
    \cup {[board |-> "Nowhere", yw |-> <<2025, 30>>]}

\* the arguments of ensure_future_sprints
FutureArgs ==
    {[board |-> "Board", yw |-> yw, count |-> MaxForward] : yw \in BaseWeeks}
    \cup {[board |-> "Board", yw |-> <<2025, 30>>, count |-> c] : c \in {0 - 1, 0, 1}}
    \cup {[board |-> "Nowhere", yw |-> <<2025, 30>>, count |-> 1]}

\* lists of value ids, of length up to n
RECURSIVE IdLists(_)
IdLists(n) ==
    IF n = 0 THEN {<< >>}
    ELSE IdLists(n - 1) \cup
         {Append(l, v) : l \in {x \in IdLists(n - 1) : Len(x) = n - 1}, v \in ValueIds}

\* what the board holds at the start: sprints of distinct names; the second
\* list holds a sprint whose dates are not those of its week
SprintPresets ==
    {<< >>,
     <<[id |-> "sprint-1", name |-> "2025.30 Sprint",
        start |-> <<20291, 0>>, finish |-> <<20300, 0>>],
       [id |-> "sprint-2", name |-> "2026.53 Sprint",
        start |-> iso_week_range_utc(2026, 53).start_ms,
        finish |-> iso_week_range_utc(2026, 53).finish_ms]>>}

VARIABLES
    sprints,    \* remote: the sprints of the board, in creation order
    defaults,   \* remote: the ids of the default values of the sprint field
    pc,         \* the gateway call the running service call makes next
    op,         \* the service call that is running or has finished
    args,       \* its arguments
    loc,        \* its local variables
    outcome,    \* how it ended
    log,        \* the gateway calls it has issued, in order
    edits,      \* edits of the defaults by somebody else since it started
    prev,       \* the service call before it: how it ended, whether
                \* somebody else edited the defaults while it ran or after
                \* it, and whether this call is that call made again
    runs        \* service calls started

vars == <<sprints, defaults, pc, op, args, loc, outcome, log, edits, prev,
          runs>>

NoArgs == [board |-> "", project |-> "", field |-> "", week |-> None,
           forward |-> 0, year |-> 0, week_num |-> 0, sprint_name |-> "",
           start_ms |-> <<0, 0>>, finish_ms |-> <<0, 0>>, value_ids |-> << >>]

NoLoc == [year |-> 0, week |-> 0, sprint_name |-> "", start_ms |-> <<0, 0>>,
          finish_ms |-> <<0, 0>>, board_id |-> "", project_id |-> "",
          field_id |-> "", value_ids |-> << >>, to_remove |-> << >>,
          to_add |-> << >>, count |-> 0, i |-> 0]

\* no call has been made: the board holds one of these lists of sprints and
\* the field one of these sets of default values
Start(sprint_lists, default_sets) ==
    /\ sprints \in sprint_lists
    /\ defaults \in default_sets
    /\ pc = "idle"
    /\ op = "none"
    /\ args = NoArgs
    /\ loc = NoLoc
    /\ outcome = "none"
    /\ log = << >>
    /\ edits = 0
    /\ prev = [again |-> FALSE, outcome |-> "none", edited |-> FALSE]
    /\ runs = 0

Init == Start(SprintPresets, SUBSET ValueIds)

(***************************************************************************)
(* Steps shared by the service calls.                                      *)
(***************************************************************************)

\* an entry of the log: one gateway call and the status it was answered with
\* (ids: the default values a fetch of the defaults was answered with)
Call(what, name, id, start, finish, status) ==
    [call |-> what, name |-> name, id |-> id, start |-> start,
     finish |-> finish, status |-> status, ids |-> {}]

\* the entry of a fetch of the defaults
Fetch(status, fetched) ==
    [Call("get_defaults", "", << >>, <<0, 0>>, <<0, 0>>, status)
        EXCEPT !.ids = IF status = StatusOk THEN Range(fetched) ELSE {}]

NoMs == <<0, 0>>

\* the statuses a call can be answered with, beside the server's own answer
Faulty == {500}

\* the same for a DELETE, where the code tells the error statuses apart
FaultyDelete == ErrorStatuses

\* the call ends: SystemExit(1) is "exit1", sys.exit(0) is "exit0", an
\* HTTPError that nothing catches is "http_error", a normal return is "ok"
End(how) == pc' = "done" /\ outcome' = how

Goto(label) ==
    /\ pc' = label
    /\ outcome' = IF label = "done" THEN "ok" ELSE outcome

\* some enumeration of a set: the order in which the server lists it
RECURSIVE as_list(_)
as_list(S) ==
    IF S = {} THEN << >>
    ELSE LET x == CHOOSE y \in S : TRUE IN <<x>> \o as_list(S \ {x})

\* lib_sprint.py 188: the ISO year and week of a date
week_of_day(iso) == [year |-> iso[1], week |-> iso[2]]

\* a faulty forward week: the week number counted on within the year
forward_week_naive(base_year, base_week, i) ==
    [year |-> base_year, week |-> base_week + i]

\* lib_sprint.py 185-188: the i-th week after the base week
forward_week(base_year, base_week, i) ==
    week_of_day(isocalendar(fromisocalendar(base_year, base_week, 1) + 7 * i))

\* lib_sprint.py 196: the sprint data of a create
sprint_data(name, range) ==
    [name |-> name, start_ms |-> range.start_ms, finish_ms |-> range.finish_ms]

\* lib_sprint.py 189-190: the name and the range of a forward week
sprint_of_week(w) ==
    sprint_data(format_sprint_name(w.year, w.week),
                iso_week_range_utc(w.year, w.week))

\* a faulty round: the weeks are counted from the base week itself
forward_sprint_from_base(base_year, base_week, i) ==
    sprint_of_week(forward_week(base_year, base_week, i - 1))

\* the sprint ensure_future_sprints asks for in its i-th round
forward_sprint(base_year, base_week, i) ==
    sprint_of_week(forward_week(base_year, base_week, i))

\* the id the server gives the next sprint of the board
NewSprintId == "sprint-" \o ToString(Len(sprints) + 1)

\* a faulty POST: a PUT of the board's sprints, which replaces them
Created_alone(name, start_ms, finish_ms) ==
    <<[id |-> NewSprintId, name |-> name,
       start |-> start_ms, finish |-> finish_ms]>>

\* POST /api/agiles/{board}/sprints as the server applies it
Created(name, start_ms, finish_ms) ==
    Append(sprints, [id |-> NewSprintId, name |-> name,
                     start |-> start_ms, finish |-> finish_ms])

\* run_sync_once goes on after a step, a call of the step alone returns
AfterEnsureSprint == IF op = "run_sync_once" THEN "sds_project" ELSE "done"

\* a faulty run_sync_once: the forward sprints right after the default
AfterUpdate_forward_first ==
    IF op = "run_sync_once" THEN "efs_board" ELSE "done"

AfterUpdate == IF op = "run_sync_once" THEN "vpd_get" ELSE "done"

\* A service call starts when no call is running, or right after the same
\* call with the same arguments has ended (again).  The log, the locals and
\* the flags are those of the new call.
Begin(name, a, l) ==
    /\ runs < MaxRuns
    /\ IF pc = "idle"
       THEN UNCHANGED prev
       ELSE /\ pc = "done" /\ op = name /\ args = a
            /\ prev' = [again |-> TRUE, outcome |-> outcome, edited |-> edits > 0]
    /\ runs' = runs + 1
    /\ op' = name
    /\ args' = a
    /\ loc' = l
    /\ log' = << >>
    /\ edits' = 0
    /\ UNCHANGED <<sprints, defaults>>

\* the call returns to its caller
Return ==
    /\ pc = "done"
    /\ pc' = "idle"
    /\ prev' = [again |-> FALSE, outcome |-> "none", edited |-> FALSE]
    /\ op' = "none"
    /\ args' = NoArgs
    /\ loc' = NoLoc
    /\ log' = << >>
    /\ outcome' = "none"
    /\ edits' = 0
    /\ UNCHANGED <<sprints, defaults, runs>>

(***************************************************************************)
(* The service calls: their arguments and what they do before the first    *)
(* gateway call.                                                           *)
(***************************************************************************)

\* a call that starts with process_week_parameter, which gave w
BeginWithWeek(name, a, w, first) ==
    /\ Begin(name, a,
             [NoLoc EXCEPT !.year = w.year, !.week = w.week,
                           !.sprint_name = w.sprint_name,
                           !.start_ms = w.start_ms, !.finish_ms = w.finish_ms])
    /\ IF w.result = "ok"
       THEN pc' = first /\ outcome' = "running"
       ELSE End(w.result)

\* SprintService.run_sync_once, lines 209-214
Call_run_sync_once ==
    \E a \in RunSyncArgs, today \in Todays :
        BeginWithWeek("run_sync_once",
                      [NoArgs EXCEPT !.board = a.target.board,
                                     !.project = a.target.project,
                                     !.field = a.target.field, !.week = a.week,
                                     !.forward = a.forward],
                      process_week_parameter(a.week, today),
                      "esb_board")

\* SprintService.create_sprint_for_week, lines 232-234
Call_create_sprint_for_week ==
    \E a \in CreateArgs, today \in Todays :
        BeginWithWeek("create_sprint_for_week",
                      [NoArgs EXCEPT !.board = a.board, !.week = a.week],
                      process_week_parameter(a.week, today),
                      "csw_board")

\* a call of ensure_sprint_on_board for a sprint
BeginEnsure(board, sprint) ==
    /\ Begin("ensure_sprint_on_board",
             [NoArgs EXCEPT !.board = board, !.sprint_name = sprint.name,
                            !.start_ms = sprint.start_ms,
                            !.finish_ms = sprint.finish_ms],
             [NoLoc EXCEPT !.sprint_name = sprint.name,
                           !.start_ms = sprint.start_ms,
                           !.finish_ms = sprint.finish_ms])
    /\ pc' = "esb_board" /\ outcome' = "running"

\* SprintService.ensure_sprint_on_board, called by itself
Call_ensure_sprint_on_board ==
    \E a \in EnsureArgs :
        BeginEnsure(a.board, sprint_of_week([year |-> a.yw[1], week |-> a.yw[2]]))

\* lib_sprint.py 186: the first round of the loop, range(1, count + 1)
first_round == 1

\* SprintService.ensure_future_sprints, called by itself, lines 177-178
Call_ensure_future_sprints ==
    \E a \in FutureArgs :
        /\ Begin("ensure_future_sprints",
                 [NoArgs EXCEPT !.board = a.board, !.year = a.yw[1],
                                !.week_num = a.yw[2], !.forward = a.count],
                 [NoLoc EXCEPT !.year = a.yw[1], !.week = a.yw[2],
                               !.count = a.count, !.i = first_round])
        /\ IF a.count <= 0
           THEN End("ok")
           ELSE pc' = "efs_board" /\ outcome' = "running"

\* YouTrackAPI.update_field_default_values, called by itself
Call_update_field_default_values ==
    \E value_ids \in IdLists(MaxValueIds) :
        /\ Begin("update_field_default_values",
                 [NoArgs EXCEPT !.value_ids = value_ids],
                 [NoLoc EXCEPT !.project_id = "proj-1", !.field_id = "field-1",
                               !.value_ids = value_ids])
        /\ pc' = "ufd_get" /\ outcome' = "running"

(***************************************************************************)
(* The gateway calls, one step each.  A step reads the answer, and what    *)
(* the code does with it up to the next gateway call.                      *)
(***************************************************************************)

\* a GET of a board by name: find_board_id, then the caller's "if not board_id"
FindBoard(at, next) ==
    /\ pc = at
    /\ \E status \in {StatusOk} \cup Faulty :
        LET board_id == find_board_id(top(Agiles, TopLookup), args.board)
        IN  /\ log' = Append(log, Call("find_board_id", args.board, << >>,
                                       NoMs, NoMs, status))
            /\ IF get_raises(status)
               THEN End("http_error") /\ UNCHANGED loc
               ELSE IF ~Truthy(board_id)
               THEN End("exit1") /\ UNCHANGED loc
               ELSE /\ loc' = [loc EXCEPT !.board_id = board_id[1]]
                    /\ pc' = next
                    /\ UNCHANGED outcome
    /\ UNCHANGED <<sprints, defaults, op, args, edits, prev, runs>>

\* a POST of a sprint
CreateSprint(at, sprint, next) ==
    /\ pc = at
    /\ \E status \in {StatusOk} \cup Faulty :
        /\ log' = Append(log, Call("create_sprint", sprint.name, << >>,
                                   sprint.start_ms, sprint.finish_ms, status))
        /\ IF post_raises(status)
           THEN End("http_error") /\ UNCHANGED sprints
           ELSE /\ sprints' = Created(sprint.name, sprint.start_ms, sprint.finish_ms)
                /\ Goto(next)
    /\ UNCHANGED <<defaults, op, args, edits, prev, runs>>

\* ensure_sprint_on_board, lines 72-76
EsbFindBoard == FindBoard("esb_board", "esb_sprint")

\* ensure_sprint_on_board, lines 78-79 and 84-86
EsbFindSprint ==
    /\ pc = "esb_sprint"
    /\ \E status \in {StatusOk} \cup Faulty :
        LET sprint_id == find_sprint_id(top(sprints, TopLookup), loc.sprint_name)
        IN  /\ log' = Append(log, Call("find_sprint_id", loc.sprint_name, << >>,
                                       NoMs, NoMs, status))
            /\ IF get_raises(status) THEN End("http_error")
               ELSE IF ~Truthy(sprint_id) THEN pc' = "esb_create" /\ UNCHANGED outcome
               ELSE Goto(AfterEnsureSprint)
    /\ UNCHANGED <<sprints, defaults, op, args, loc, edits, prev, runs>>

\* ensure_sprint_on_board, lines 80-83 and 86
EsbCreate ==
    /\ CreateSprint("esb_create",
                    [name |-> loc.sprint_name, start_ms |-> loc.start_ms,
                     finish_ms |-> loc.finish_ms],
                    AfterEnsureSprint)
    /\ UNCHANGED loc

\* set_project_default_sprint, lines 105-109
SdsFindProject ==
    /\ pc = "sds_project"
    /\ \E status \in {StatusOk} \cup Faulty :
        LET project_id == find_project_id(top(Projects, TopLookup), args.project)
        IN  /\ log' = Append(log, Call("find_project_id", args.project, << >>,
                                       NoMs, NoMs, status))
            /\ IF get_raises(status)
               THEN End("http_error") /\ UNCHANGED loc
               ELSE IF ~Truthy(project_id)
               THEN End("exit1") /\ UNCHANGED loc
               ELSE /\ loc' = [loc EXCEPT !.project_id = project_id[1]]
                    /\ pc' = "sds_fields"
                    /\ UNCHANGED outcome
    /\ UNCHANGED <<sprints, defaults, op, args, edits, prev, runs>>

\* set_project_default_sprint, lines 111-141: the field of that name, the
\* bundle value of the sprint's name, and the list [value_id] to update to
SdsGetFields ==
    /\ pc = "sds_fields"
    /\ \E status \in {StatusOk} \cup Faulty :
        LET project_field == find_project_field(ProjectFields, args.field)
            value_id == IF project_field = None THEN None
                        ELSE find_bundle_value_by_name(project_field[1].values,
                                                       loc.sprint_name)
        IN  /\ log' = Append(log, Call("get_project_fields", args.field, << >>,
                                       NoMs, NoMs, status))
            /\ IF get_raises(status)
               THEN End("http_error") /\ UNCHANGED loc
               ELSE IF project_field = None \/ ~TruthyId(value_id)
               THEN End("exit1") /\ UNCHANGED loc
               ELSE /\ loc' = [loc EXCEPT !.field_id = project_field[1].id,
                                          !.value_ids = <<value_id[1]>>]
                    /\ pc' = "ufd_get"
                    /\ UNCHANGED outcome
    /\ UNCHANGED <<sprints, defaults, op, args, edits, prev, runs>>

\* update_field_default_values, lines 221-225 and 234, for the two lists
UfdDiffed(fetched, to_remove, to_add) ==
    /\ pc = "ufd_get"
    /\ \E status \in {StatusOk} \cup Faulty :
        /\ log' = Append(log, Fetch(status, fetched))
        /\ IF get_raises(status)
           THEN End("http_error") /\ UNCHANGED loc
           ELSE IF to_remove = << >> /\ to_add = << >>
           THEN Goto(AfterUpdate) /\ UNCHANGED loc
           ELSE /\ loc' = [loc EXCEPT !.to_remove = to_remove, !.to_add = to_add]
                /\ pc' = IF to_remove # << >> THEN "ufd_delete" ELSE "ufd_add"
                /\ UNCHANGED outcome
    /\ UNCHANGED <<sprints, defaults, op, args, edits, prev, runs>>

\* update_field_default_values, lines 215-219, for the fetched defaults
UfdFetched(fetched) ==
    UfdDiffed(fetched,
              removal_order(fetched, loc.value_ids),
              addition_order(fetched, loc.value_ids))

\* update_field_default_values, lines 210-225 and 234: the fetch and the diff
UfdGet == UfdFetched(top(as_list(defaults), TopLookup))

\* where update_field_default_values goes on with these lists left
UfdNext(to_remove, to_add) ==
    IF to_remove # << >> THEN "ufd_delete"
    ELSE IF to_add # << >> THEN "ufd_add"
    ELSE AfterUpdate

\* update_field_default_values, lines 227-232: one round of the removals.
\* The server answers 404 for an id that is no default value (any more).
UfdDelete ==
    /\ pc = "ufd_delete"
    /\ LET default_id == Head(loc.to_remove)
           answer     == IF default_id \in defaults THEN StatusOk ELSE StatusNotFound
       IN  \E status \in {answer} \cup FaultyDelete :
            /\ log' = Append(log, Call("delete_default", "", default_id,
                                       NoMs, NoMs, status))
            /\ defaults' = IF status = StatusOk THEN defaults \ {default_id}
                           ELSE defaults
            /\ IF delete_raises(status)
               THEN End("http_error") /\ UNCHANGED loc
               ELSE /\ loc' = [loc EXCEPT !.to_remove = Tail(loc.to_remove)]
                    /\ Goto(UfdNext(Tail(loc.to_remove), loc.to_add))
    /\ UNCHANGED <<sprints, op, args, edits, prev, runs>>

\* update_field_default_values, lines 236-237: one round of the additions
UfdAdd ==
    /\ pc = "ufd_add"
    /\ LET value_id == Head(loc.to_add)
       IN  \E status \in {StatusOk} \cup Faulty :
            /\ log' = Append(log, Call("add_default", "", value_id,
                                       NoMs, NoMs, status))
            /\ IF post_raises(status)
               THEN End("http_error") /\ UNCHANGED <<loc, defaults>>
               ELSE /\ defaults' = defaults \cup {value_id}
                    /\ loc' = [loc EXCEPT !.to_add = Tail(loc.to_add)]
                    /\ Goto(UfdNext(<< >>, Tail(loc.to_add)))
    /\ UNCHANGED <<sprints, op, args, edits, prev, runs>>

\* verify_project_default, then run_sync_once line 217 and
\* ensure_future_sprints lines 177-178
VpdGet ==
    /\ pc = "vpd_get"
    /\ \E status \in {StatusOk} \cup Faulty :
        LET count == IF args.forward > 0 THEN args.forward ELSE 0
        IN  /\ log' = Append(log, Call("get_field_defaults", "", << >>,
                                       NoMs, NoMs, status))
            /\ IF get_raises(status)
               THEN End("http_error") /\ UNCHANGED loc
               ELSE /\ loc' = [loc EXCEPT !.count = count, !.i = first_round]
                    /\ IF count <= 0 THEN Goto("done")
                       ELSE pc' = "efs_board" /\ UNCHANGED outcome
    /\ UNCHANGED <<sprints, defaults, op, args, edits, prev, runs>>


\* ensure_future_sprints, lines 180-185
EfsFindBoard == FindBoard("efs_board", "efs_exists")

\* a faulty loop of ensure_future_sprints: range(1, count)
EfsNext_short(i) == IF i < loc.count - 1 THEN "efs_exists" ELSE "done"

\* the round of the loop of ensure_future_sprints after round i
EfsNext(i) == IF i < loc.count THEN "efs_exists" ELSE "done"

\* ensure_future_sprints, lines 192-195, for the sprint of the round
EfsExistsFor(sprint) ==
    /\ pc = "efs_exists"
    /\ \E status \in {StatusOk} \cup Faulty :
        /\ log' = Append(log, Call("sprint_exists", sprint.name, << >>,
                                   NoMs, NoMs, status))
        /\ IF get_raises(status)
           THEN End("http_error") /\ UNCHANGED loc
           ELSE IF sprint_exists(top(sprints, TopLookup), sprint.name)
           THEN /\ loc' = [loc EXCEPT !.i = loc.i + 1]
                /\ Goto(EfsNext(loc.i))
           ELSE pc' = "efs_create" /\ UNCHANGED <<outcome, loc>>
    /\ UNCHANGED <<sprints, defaults, op, args, edits, prev, runs>>

\* ensure_future_sprints, lines 186-195: the existence check of round i
EfsExists == EfsExistsFor(forward_sprint(loc.year, loc.week, loc.i))

\* ensure_future_sprints, line 196: the create of round i
EfsCreate ==
    /\ CreateSprint("efs_create", forward_sprint(loc.year, loc.week, loc.i),
                    EfsNext(loc.i))
    /\ loc' = IF pc' = "done" /\ outcome' = "http_error" THEN loc
              ELSE [loc EXCEPT !.i = loc.i + 1]

\* create_sprint_for_week, lines 236-240
CswFindBoard == FindBoard("csw_board", "csw_exists")

\* create_sprint_for_week, lines 242-244: sys.exit(0) when the sprint exists
CswExists ==
    /\ pc = "csw_exists"
    /\ \E status \in {StatusOk} \cup Faulty :
        /\ log' = Append(log, Call("sprint_exists", loc.sprint_name, << >>,
                                   NoMs, NoMs, status))
        /\ IF get_raises(status) THEN End("http_error")
           ELSE IF sprint_exists(top(sprints, TopLookup), loc.sprint_name)
           THEN End("exit0")
           ELSE pc' = "csw_create" /\ UNCHANGED outcome
    /\ UNCHANGED <<sprints, defaults, op, args, loc, edits, prev, runs>>

\* create_sprint_for_week, lines 246-249
CswCreate ==
    /\ CreateSprint("csw_create",
                    [name |-> loc.sprint_name, start_ms |-> loc.start_ms,
                     finish_ms |-> loc.finish_ms],
                    "done")
    /\ UNCHANGED loc

\* somebody else makes a value a default, or makes it one no longer: while
\* update_field_default_values is between its fetch and its last write,
\* between two service calls, or after a run_sync_once that is then made
\* again (an edit before the fetch of a call is an edit before the call)
ExternalEdit ==
    /\ edits < MaxEdits
    /\ \/ pc \in {"ufd_delete", "ufd_add"}
       \/ pc = "idle" /\ runs < MaxRuns
       \/ pc = "done" /\ op = "run_sync_once" /\ outcome = "ok" /\ runs < MaxRuns
    /\ \E v \in ValueIds :
        defaults' = IF v \in defaults THEN defaults \ {v} ELSE defaults \cup {v}
    /\ edits' = IF pc = "idle" THEN 0 ELSE edits + 1
    /\ UNCHANGED <<sprints, pc, op, args, loc, outcome, log, prev, runs>>

Next ==
    \/ Call_run_sync_once
    \/ Call_create_sprint_for_week
    \/ Call_ensure_sprint_on_board
    \/ Call_ensure_future_sprints
    \/ EsbFindBoard
    \/ EsbFindSprint
    \/ EsbCreate
    \/ SdsFindProject
    \/ SdsGetFields
    \/ UfdGet
    \/ UfdDelete
    \/ UfdAdd
    \/ VpdGet
    \/ EfsFindBoard
    \/ EfsExists
    \/ EfsCreate
    \/ CswFindBoard
    \/ CswExists
    \/ CswCreate
    \/ Return
    \/ ExternalEdit

Spec == Init /\ [][Next]_vars

(***************************************************************************)
(* update_field_default_values by itself, called with any list of ids.     *)
(***************************************************************************)

\* a default value may be an entry that carries no id (<< >>)
InitUpdate == Start({<< >>}, SUBSET (ValueIds \cup {<< >>}))

NextUpdate ==
    \/ Call_update_field_default_values
    \/ UfdGet
    \/ UfdDelete
    \/ UfdAdd
    \/ Return
    \/ ExternalEdit

SpecUpdate == InitUpdate /\ [][NextUpdate]_vars

(***************************************************************************)
(* update_field_default_values made again after it has failed, with the    *)
(* same ids and nobody else editing the defaults: the log goes on, so it   *)
(* holds the calls of the failed run and then those of the later one.      *)
(***************************************************************************)
UpdateAgain ==
    /\ pc = "done"
    /\ op = "update_field_default_values"
    /\ outcome = "http_error"
    /\ runs < MaxRuns
    /\ runs' = runs + 1
    /\ loc' = [NoLoc EXCEPT !.project_id = "proj-1", !.field_id = "field-1",
                            !.value_ids = args.value_ids]
    /\ pc' = "ufd_get"
    /\ outcome' = "running"
    /\ UNCHANGED <<sprints, defaults, op, args, log, edits, prev>>

NextRetry ==
    \/ Call_update_field_default_values
    \/ UfdGet
    \/ UfdDelete
    \/ UfdAdd
    \/ UpdateAgain

SpecRetry == InitUpdate /\ [][NextRetry]_vars

(***************************************************************************)
(* The two versions of update_field_default_values side by side: the one   *)
(* of ytsprint/lib_yt_api.py, which issues the difference, on the remote   *)
(* defaults, and the one of lib_yt_api.py, which deletes every default and *)
(* adds every id, on a copy of them; both were called with the same ids.   *)
(* Here prev holds the copy, where the second version is, the deletes and  *)
(* posts it has still to issue, and the log of its calls.                  *)
(***************************************************************************)
\* lib_yt_api.py 199-202: the ids it deletes, in the order of the fetch
legacy_to_delete(fetched) == SelectSeq(fetched, LAMBDA d : d # << >>)

InitLegacy ==
    /\ sprints = << >>
    /\ defaults \in SUBSET (ValueIds \cup {<< >>})
    /\ pc = "ufd_get"
    /\ op = "update_field_default_values"
    /\ \E value_ids \in IdLists(MaxValueIds) :
        /\ args = [NoArgs EXCEPT !.value_ids = value_ids]
        /\ loc = [NoLoc EXCEPT !.project_id = "proj-1", !.field_id = "field-1",
                               !.value_ids = value_ids]
    /\ outcome = "running"
    /\ log = << >>
    /\ edits = 0
    /\ prev = [pc |-> "get", outcome |-> "running", defaults |-> defaults,
               to_delete |-> << >>, to_post |-> << >>, log |-> << >>]
    /\ runs = 1

\* lib_yt_api.py 198: the fetch of the defaults
LegacyGet ==
    /\ prev.pc = "get"
    /\ \E status \in {StatusOk} \cup Faulty :
        LET fetched == top(as_list(prev.defaults), TopLookup)
        IN  prev' = IF get_raises(status)
                    THEN [prev EXCEPT !.pc = "done", !.outcome = "http_error",
                                      !.log = Append(@, Fetch(status, fetched))]
                    ELSE [prev EXCEPT !.pc = "delete",
                                      !.to_delete = legacy_to_delete(fetched),
                                      !.to_post = args.value_ids,
                                      !.log = Append(@, Fetch(status, fetched))]
    /\ UNCHANGED <<sprints, defaults, pc, op, args, loc, outcome, log, edits,
                   runs>>

\* lib_yt_api.py 199-202: one round of the deletes
LegacyDelete ==
    /\ prev.pc = "delete"
    /\ IF prev.to_delete = << >>
       THEN prev' = [prev EXCEPT !.pc = "post"]
       ELSE \E status \in {StatusOk} \cup FaultyDelete :
            LET default_id == Head(prev.to_delete)
                entry == Call("delete_default", "", default_id, NoMs, NoMs,
                              status)
            IN  prev' = IF delete_raises(status)
                        THEN [prev EXCEPT !.pc = "done",
                                          !.outcome = "http_error",
                                          !.log = Append(@, entry)]
                        ELSE [prev EXCEPT !.to_delete = Tail(@),
                                          !.defaults = @ \ {default_id},
                                          !.log = Append(@, entry)]
    /\ UNCHANGED <<sprints, defaults, pc, op, args, loc, outcome, log, edits,
                   runs>>

\* lib_yt_api.py 205-206: one round of the posts
LegacyPost ==
    /\ prev.pc = "post"
    /\ IF prev.to_post = << >>
       THEN prev' = [prev EXCEPT !.pc = "done", !.outcome = "ok"]
       ELSE \E status \in {StatusOk} \cup Faulty :
            LET value_id == Head(prev.to_post)
                entry == Call("add_default", "", value_id, NoMs, NoMs, status)
            IN  prev' = IF post_raises(status)
                        THEN [prev EXCEPT !.pc = "done",
                                          !.outcome = "http_error",
                                          !.log = Append(@, entry)]
                        ELSE [prev EXCEPT !.to_post = Tail(@),
                                          !.defaults = @ \cup {value_id},
                                          !.log = Append(@, entry)]
    /\ UNCHANGED <<sprints, defaults, pc, op, args, loc, outcome, log, edits,
                   runs>>

NextLegacy ==
    \/ UfdGet
    \/ UfdDelete
    \/ UfdAdd
    \/ LegacyGet
    \/ LegacyDelete
    \/ LegacyPost

SpecLegacy == InitLegacy /\ [][NextLegacy]_vars

(***************************************************************************)
(* ensure_sprint_on_board by itself, on boards whose list of sprints holds *)
(* an entry of the name asked for that carries an id, an empty id or none. *)
(***************************************************************************)
\* the entry of sprint 2025.30 as the server returns it: with an id, with
\* an empty id, with no id
PresenceEntries ==
    {[id |-> id, name |-> "2025.30 Sprint",
      start |-> iso_week_range_utc(2025, 30).start_ms,
      finish |-> iso_week_range_utc(2025, 30).finish_ms] :
        id \in {"sprint-1", ""}}
    \cup {[name |-> "2025.30 Sprint",
           start |-> iso_week_range_utc(2025, 30).start_ms,
           finish |-> iso_week_range_utc(2025, 30).finish_ms]}

PresencePresets ==
    {<< >>} \cup {<<e>> : e \in PresenceEntries}
    \cup {<<e, f>> : e \in PresenceEntries, f \in PresenceEntries}

InitPresence == Start(PresencePresets, {{}})

NextPresence ==
    \/ Call_ensure_sprint_on_board
    \/ EsbFindBoard
    \/ EsbFindSprint
    \/ EsbCreate
    \/ Return

SpecPresence == InitPresence /\ [][NextPresence]_vars

(***************************************************************************)
(* ensure_future_sprints by itself, on a board that holds some of the      *)
(* forward weeks or none, called again after it has ended.                 *)
(***************************************************************************)
InitFuture == Start(SprintPresets, {{}})

NextFuture ==
    \/ Call_ensure_future_sprints
    \/ EfsFindBoard
    \/ EfsExists
    \/ EfsCreate
    \/ Return

SpecFuture == InitFuture /\ [][NextFuture]_vars

(***************************************************************************)
(* The forward weeks by themselves: ensure_future_sprints' arithmetic on    *)
(* every week of some years, one week further at each step.                *)
(***************************************************************************)

\* how many weeks further a base week is followed
MaxOffset == 2

\* the years of the base weeks
WeekYears == 2019..2028

InitWeeks ==
    /\ \E y \in WeekYears, w \in 1..53 :
        /\ iso_week_valid(y, w)
        /\ loc = [NoLoc EXCEPT !.year = y, !.week = w]
    /\ sprints = << >>
    /\ defaults = {}
    /\ pc = "weeks"
    /\ op = "forward_week"
    /\ args = NoArgs
    /\ outcome = "none"
    /\ log = << >>
    /\ edits = 0
    /\ prev = [again |-> FALSE, outcome |-> "none", edited |-> FALSE]
    /\ runs = 0

\* ensure_future_sprints, lines 185-188, for the next i: log holds the weeks
ForwardWeek ==
    /\ pc = "weeks"
    /\ loc.i < MaxOffset
    /\ loc' = [loc EXCEPT !.i = loc.i + 1]
    /\ log' = Append(log, forward_week(loc.year, loc.week, loc.i + 1))
    /\ UNCHANGED <<sprints, defaults, pc, op, args, outcome, edits, prev,
                   runs>>

NextWeeks == ForwardWeek

SpecWeeks == InitWeeks /\ [][NextWeeks]_vars

(***************************************************************************)
(* The range and the name of a week alone: iso_week_range_utc and          *)
(* format_sprint_name on every week of the years whose timestamps are      *)
(* positive and fit 31 bits.                                               *)
(***************************************************************************)
RangeYears == 1971..2037

InitRange ==
    /\ \E y \in RangeYears, w \in 1..53 :
        /\ iso_week_valid(y, w)
        /\ loc = [NoLoc EXCEPT !.year = y, !.week = w]
    /\ sprints = << >>
    /\ defaults = {}
    /\ pc = "range"
    /\ op = "process_week_parameter"
    /\ args = NoArgs
    /\ outcome = "none"
    /\ log = << >>
    /\ edits = 0
    /\ prev = [again |-> FALSE, outcome |-> "none", edited |-> FALSE]
    /\ runs = 0

\* DateUtils.iso_week_range_utc of the week: log holds what it returns
IsoWeekRange ==
    /\ pc = "range"
    /\ log = << >>
    /\ log' = <<iso_week_range_utc(loc.year, loc.week)>>
    /\ outcome' = "ok"
    /\ UNCHANGED <<sprints, defaults, pc, op, args, loc, edits, prev, runs>>

\* DateUtils.format_sprint_name of the week
FormatSprintName ==
    /\ pc = "range"
    /\ loc.sprint_name = ""
    /\ loc' = [loc EXCEPT !.sprint_name = format_sprint_name(loc.year, loc.week)]
    /\ UNCHANGED <<sprints, defaults, pc, op, args, outcome, log, edits, prev,
                   runs>>

NextRange == IsoWeekRange \/ FormatSprintName

SpecRange == InitRange /\ [][NextRange]_vars

(***************************************************************************)
(* The parsing of a --week text alone: parse_year_week on texts made of a  *)
(* year part and a week part, well-formed or not, and the name given to    *)
(* the parsed week.                                                        *)
(***************************************************************************)
YearTexts ==
    {<<"2", "0", "2", "5">>, <<"2", "0", "2", "6">>, <<"0", "0", "2", "5">>,
     <<"2", "5">>, <<"+", "2", "0", "2", "5">>, <<" ", "2", "0", "2", "5">>,
     <<"2", "_", "0", "2", "5">>, <<"-", "5">>, <<"2", "0", "2", "x">>,
     <<"2", "0", "2", "5", "0">>, << >>}

WeekTexts ==
    {<<"3", "0">>, <<"0", "5">>, <<"0", "1">>, <<"5", "3">>, <<"5", "4">>,
     <<"0", "0">>, <<"5">>, <<"3", " ">>, <<"1", "_", "0">>, <<"-", "1">>,
     <<"0", "3", "0">>, <<"3", "x">>, << >>}

ParseTexts ==
    UNION {{Tok(y, w), y \o <<"-">> \o w, y \o w, Tok(y, w) \o <<".">> \o w} :
           <<y, w>> \in YearTexts \X WeekTexts}

InitParse ==
    /\ \E text \in ParseTexts : args = [NoArgs EXCEPT !.week = Some(text)]
    /\ sprints = << >>
    /\ defaults = {}
    /\ pc = "parse"
    /\ op = "parse_year_week"
    /\ loc = NoLoc
    /\ outcome = "none"
    /\ log = << >>
    /\ edits = 0
    /\ prev = [again |-> FALSE, outcome |-> "none", edited |-> FALSE]
    /\ runs = 0

\* process_week_parameter, lines 120 and 124, for what parse_year_week gives
Parsed(parsed) ==
    IF parsed.ok
    THEN /\ outcome' = "ok"
         /\ loc' = [loc EXCEPT !.year = parsed.year, !.week = parsed.week,
                               !.sprint_name =
                                   format_sprint_name(parsed.year, parsed.week)]
    ELSE /\ outcome' = "format_error"
         /\ UNCHANGED loc

\* DateUtils.parse_year_week of the text
ParseYearWeek ==
    /\ pc = "parse"
    /\ outcome = "none"
    /\ Parsed(parse_year_week(args.week[1]))
    /\ UNCHANGED <<sprints, defaults, pc, op, args, log, edits, prev, runs>>

NextParse == ParseYearWeek

SpecParse == InitParse /\ [][NextParse]_vars

(***************************************************************************)
(* The daemon: DaemonRunner.start with the job of the command line, one    *)
(* run_sync_once per tick.  prev holds what the ticks before have left:    *)
(* the state of _init_metrics (last_run_ts, last_status), the day of the   *)
(* last tick, and for every finished tick how the job ended, the value the *)
(* status gauge was set to and whether an exception left _job_wrapper.     *)
(* The scheduler runs the job in a worker of its pool, which catches and   *)
(* logs whatever the job raises: the daemon then waits for the next tick.  *)
(***************************************************************************)
MaxTicks == 3

\* the day the daemon is started: Wednesday 2025-07-23, in week 2025.30
StartDay == fromisocalendar(2025, 30, 3)

\* or the Wednesday before, in week 2025.29
StartDays == {StartDay - 7, StartDay}

\* CronTrigger of the default crontab "0 8 * * 1": the Monday after a day
next_fire_day(day) == day + 7 - weekday(day)

\* the first tick is at once (next_run_time is now), the others on Mondays
tick_day(ticks, last_day) ==
    IF ticks = 0 THEN last_day ELSE next_fire_day(last_day)

\* the command line of the daemon: no --week or a week, no --forward
DaemonArgs ==
    {[NoArgs EXCEPT !.board = GoodTarget.board, !.project = GoodTarget.project,
                    !.field = GoodTarget.field, !.week = w] :
        w \in {None, Week2025_30}}
    \cup {[NoArgs EXCEPT !.board = t.board, !.project = t.project,
                         !.field = t.field, !.week = Week2025_30] :
             t \in BadTargets}

InitDaemon ==
    /\ sprints = << >>
    /\ defaults \in {{}, {<<9>>}}
    /\ pc = "daemon_wait"
    /\ op = "run_sync_once"
    /\ args \in DaemonArgs
    /\ loc = NoLoc
    /\ outcome = "none"
    /\ log = << >>
    /\ edits = 0
    /\ prev \in {[last_run_ts |-> None, last_status |-> 0, day |-> d,
                 ticks |-> << >>] : d \in StartDays}
    /\ runs = 0

\* _job_wrapper, lines 141-143, and run_sync_once, line 209, on that day
JobStarts(today, w) ==
    /\ pc = "daemon_wait"
    /\ runs < MaxTicks
    /\ runs' = runs + 1
    /\ prev' = [prev EXCEPT !.last_run_ts = Some(today), !.day = today]
    /\ loc' = [NoLoc EXCEPT !.year = w.year, !.week = w.week,
                            !.sprint_name = w.sprint_name,
                            !.start_ms = w.start_ms, !.finish_ms = w.finish_ms]
    /\ log' = << >>
    /\ IF w.result = "ok"
       THEN pc' = "esb_board" /\ outcome' = "running"
       ELSE End(w.result)
    /\ UNCHANGED <<sprints, defaults, op, args, edits>>

JobWrapperStart ==
    JobStarts(tick_day(runs, prev.day),
              process_week_parameter(args.week, tick_day(runs, prev.day)))

\* "except Exception" catches HTTPError, ArgumentTypeError and ValueError;
\* SystemExit derives from BaseException only
is_exception(how) == how \in {"http_error", "format_error", "value_error"}

\* _job_wrapper, lines 143-147: last_status after a job that ended so
last_status_after(how, last_status) ==
    IF how = "ok" THEN 1
    ELSE IF is_exception(how) THEN 0
    ELSE last_status

\* _job_wrapper, lines 143-150: the job has ended; finally sets the gauge to
\* last_status, and what "except Exception" did not catch is raised on
JobWrapperEnd ==
    /\ pc = "done"
    /\ pc' = "daemon_wait"
    /\ prev' = [prev EXCEPT
                   !.last_status = last_status_after(outcome, prev.last_status),
                   !.ticks = Append(prev.ticks,
                       [outcome |-> outcome,
                        gauge   |-> last_status_after(outcome, prev.last_status),
                        raised  |-> outcome # "ok" /\ ~is_exception(outcome)])]
    /\ UNCHANGED <<sprints, defaults, op, args, loc, outcome, log, edits, runs>>

NextDaemon ==
    \/ JobWrapperStart
    \/ EsbFindBoard
    \/ EsbFindSprint
    \/ EsbCreate
    \/ SdsFindProject
    \/ SdsGetFields
    \/ UfdGet
    \/ UfdDelete
    \/ UfdAdd
    \/ VpdGet
    \/ JobWrapperEnd

SpecDaemon == InitDaemon /\ [][NextDaemon]_vars

(***************************************************************************)
(* DaemonRunner.start as its threads run it: the main thread goes through  *)
(* start, the thread of the scheduler fires the ticks, a worker of its     *)
(* pool runs the job, the metrics server answers the reads of the gauges.  *)
(* The job is any callable: it starts, takes its time and ends.  Here prev *)
(* holds the state of _init_metrics, the clock in seconds and the state of *)
(* the scheduler, log the events in order, loc the last answer of the      *)
(* metrics server, args whether the libraries can be imported.             *)
(*                                                                         *)
(* The scheduler is the BackgroundScheduler of APScheduler 3 as            *)
(* _build_scheduler configures it; the library is not part of the          *)
(* repository, and what it does with the options is taken from its         *)
(* documentation: a job has max_instances = 1 unless add_job says          *)
(* otherwise, and a submission that would exceed it is skipped; the worker *)
(* (run_job) goes through the run times it was given, drops a run time     *)
(* that is more than misfire_grace_time late as missed, runs the job for   *)
(* the others one after the other and catches whatever the job raises;     *)
(* coalesce = True would keep the last run time only; shutdown(wait=True)  *)
(* stops the scheduler and returns when the workers have finished.         *)
(***************************************************************************)
MaxClock == 120

\* the clock is looked at every so many seconds, and start is called at the
\* first of these times
ClockStep == 20

\* job_defaults, line 109
MisfireGrace == 30

\* add_job, line 112, names no max_instances: the library's default
max_instances == 1

\* the crontab of --cron fires every so many seconds: "* * * * *"
CronPeriod == 60

\* CronTrigger.get_next_fire_time: the fire time after a fire time
get_next_fire_time(previous) == (previous \div CronPeriod + 1) * CronPeriod

\* a faulty add_job: without next_run_time the first run time is the
\* trigger's first fire time
first_run_time_of_trigger(now) == get_next_fire_time(now)

\* add_job, line 112: next_run_time=dt.datetime.now(dt.timezone.utc)
first_run_time(now) == now

\* the run times of the job that are due now, from next_run_time on
RECURSIVE get_run_times(_, _)
get_run_times(next_run_time, now) ==
    IF next_run_time > now THEN << >>
    ELSE <<next_run_time>>
             \o get_run_times(get_next_fire_time(next_run_time), now)

\* the executor takes a submission while the job has fewer instances running
can_submit_always(instances) == TRUE

can_submit(instances) == instances < max_instances

\* run_job with misfire_grace_time: the run times it drops as missed and
\* those it runs the job for, the first of them now
run_job_whenever(run_times, now) ==
    [missed |-> << >>,
     due    |-> IF run_times = << >> THEN << >>
                ELSE <<run_times[Len(run_times)]>>]

run_job(run_times, now) ==
    [missed |-> SelectSeq(run_times, LAMBDA t : now - t > MisfireGrace),
     due    |-> SelectSeq(run_times, LAMBDA t : now - t <= MisfireGrace)]

\* _seconds, lines 87-90: float("nan") before the first run
seconds_zero_at_first(last_run_ts, now) ==
    IF last_run_ts = None THEN [nan |-> FALSE, value |-> 0]
    ELSE [nan |-> FALSE,
          value |-> IF now - last_run_ts[1] > 0 THEN now - last_run_ts[1]
                    ELSE 0]

\* a faulty _seconds: the difference as it is, without max(0.0, ...)
seconds_unclamped(last_run_ts, now) ==
    IF last_run_ts = None THEN [nan |-> TRUE, value |-> 0]
    ELSE [nan |-> FALSE, value |-> now - last_run_ts[1]]

seconds(last_run_ts, now) ==
    IF last_run_ts = None THEN [nan |-> TRUE, value |-> 0]
    ELSE [nan |-> FALSE,
          value |-> IF now - last_run_ts[1] > 0 THEN now - last_run_ts[1]
                    ELSE 0]

\* start, lines 126-152: where the main thread goes after a step
start_step_scheduler_first(label, imported) ==
    CASE label = "import_deps" ->
             IF imported THEN "build_scheduler" ELSE "done"
      [] label = "build_scheduler" -> "init_metrics"
      [] label = "init_metrics" -> "sleep"

start_step_whatever_import(label, imported) ==
    CASE label = "import_deps" -> "init_metrics"
      [] label = "init_metrics" -> "build_scheduler"
      [] label = "build_scheduler" -> "sleep"

start_step(label, imported) ==
    CASE label = "import_deps" -> IF imported THEN "init_metrics" ELSE "done"
      [] label = "init_metrics" -> "build_scheduler"
      [] label = "build_scheduler" -> "sleep"

\* shutdown(wait=True), line 159, returns when no worker runs the job
shutdown_done_at_once(workers) == TRUE

shutdown_done(workers) == workers = << >>

\* what happened to run times at a time, as entries of the log
Events(what, run_times, now) ==
    [i \in 1..Len(run_times) |->
        [what |-> what, run_time |-> run_times[i], at |-> now]]

Event(what, run_time, now) ==
    <<[what |-> what, run_time |-> run_time, at |-> now]>>

InitRunner ==
    /\ sprints = << >>
    /\ defaults = {}
    /\ pc = "import_deps"
    /\ op = "start"
    /\ args \in {[deps |-> b] : b \in BOOLEAN}
    /\ loc = [read |-> FALSE, seconds |-> [nan |-> TRUE, value |-> 0]]
    /\ outcome = "none"
    /\ log = << >>
    /\ edits = 0
    /\ prev = [last_run_ts |-> None, last_status |-> 0,
               now |-> ClockStep, metrics |-> FALSE, scheduler |-> "none",
               next_run_time |-> 0, workers |-> << >>]
    /\ runs = 0

\* time passes; what the metrics server answered is of the time before
Pass ==
    /\ pc \in {"sleep", "shutdown"}
    /\ prev.now + ClockStep <= MaxClock
    /\ prev' = [prev EXCEPT !.now = prev.now + ClockStep]
    /\ loc' = [loc EXCEPT !.read = FALSE]
    /\ UNCHANGED <<sprints, defaults, pc, op, args, outcome, log, edits, runs>>

\* start, lines 126-134
ImportDeps ==
    /\ pc = "import_deps"
    /\ pc' = start_step(pc, args.deps)
    /\ outcome' = IF pc' = "done" THEN "exit1" ELSE outcome
    /\ UNCHANGED <<sprints, defaults, op, args, loc, log, edits, prev, runs>>

\* start, lines 136-137: _init_metrics and start_http_server
InitMetrics ==
    /\ pc = "init_metrics"
    /\ pc' = start_step(pc, TRUE)
    /\ prev' = [prev EXCEPT !.last_run_ts = None, !.last_status = 0,
                            !.metrics = TRUE]
    /\ log' = log \o Event("start_http_server", prev.now, prev.now)
    /\ UNCHANGED <<sprints, defaults, op, args, loc, outcome, edits, runs>>

\* start, line 152: _build_scheduler adds the job with next_run_time now
\* and starts the scheduler
BuildScheduler ==
    /\ pc = "build_scheduler"
    /\ pc' = start_step(pc, TRUE)
    /\ prev' = [prev EXCEPT !.scheduler = "running",
                            !.next_run_time = first_run_time(prev.now)]
    /\ log' = log \o Event("scheduler.start", prev.now, prev.now)
    /\ UNCHANGED <<sprints, defaults, op, args, loc, outcome, edits, runs>>

\* a worker goes through its run times: the missed ones are dropped, and
\* _job_wrapper, line 141, starts for the first of the others
Worker(workers, run_times, keep, status) ==
    /\ log' = log \o Events("missed", run_job(run_times, prev.now).missed,
                            prev.now)
                  \o (IF run_job(run_times, prev.now).due = << >> THEN << >>
                      ELSE Event("run",
                                 Head(run_job(run_times, prev.now).due),
                                 prev.now))
    /\ IF run_job(run_times, prev.now).due = << >>
       THEN /\ prev' = [keep EXCEPT !.workers = workers,
                                    !.last_status = status]
            /\ runs' = runs
       ELSE /\ prev' = [keep EXCEPT
                           !.workers = Append(workers,
                               Tail(run_job(run_times, prev.now).due)),
                           !.last_run_ts = Some(prev.now),
                           !.last_status = status]
            /\ runs' = runs + 1

\* the scheduler wakes up, however late, with run times that are due
ProcessJobs ==
    /\ prev.scheduler = "running"
    /\ prev.next_run_time <= prev.now
    /\ IF can_submit(Len(prev.workers))
       THEN Worker(prev.workers,
                   get_run_times(prev.next_run_time, prev.now),
                   [prev EXCEPT !.next_run_time =
                       get_next_fire_time(prev.now)],
                   prev.last_status)
       ELSE /\ log' = log \o Events("skipped",
                                get_run_times(prev.next_run_time, prev.now),
                                prev.now)
            /\ prev' = [prev EXCEPT !.next_run_time =
                           get_next_fire_time(prev.now)]
            /\ runs' = runs
    /\ UNCHANGED <<sprints, defaults, pc, op, args, loc, outcome, edits>>

\* _job_wrapper, lines 143-150: the job of a worker has ended in some way,
\* and the worker goes on with the run times it has left
JobEnds(i, how) ==
    /\ i \in 1..Len(prev.workers)
    /\ Worker(SubSeq(prev.workers, 1, i - 1)
                  \o SubSeq(prev.workers, i + 1, Len(prev.workers)),
              prev.workers[i],
              prev,
              last_status_after(how, prev.last_status))
    /\ UNCHANGED <<sprints, defaults, pc, op, args, loc, outcome, edits>>

JobWrapperEnds ==
    \E i \in 1..max_instances + 1, how \in {"ok", "http_error"} :
        JobEnds(i, how)

\* start, lines 154-159: KeyboardInterrupt in the sleep of the main thread
Interrupt ==
    /\ pc = "sleep"
    /\ pc' = "shutdown"
    /\ prev' = [prev EXCEPT !.scheduler = "shutdown"]
    /\ log' = log \o Event("shutdown", prev.now, prev.now)
    /\ UNCHANGED <<sprints, defaults, op, args, loc, outcome, edits, runs>>

\* shutdown has returned, and with it start
ShutdownReturns ==
    /\ pc = "shutdown"
    /\ shutdown_done(prev.workers)
    /\ pc' = "done"
    /\ outcome' = "ok"
    /\ log' = log \o Event("return", prev.now, prev.now)
    /\ UNCHANGED <<sprints, defaults, op, args, loc, edits, prev, runs>>

\* the metrics server reads the seconds gauge for a client
Scrape ==
    /\ prev.metrics
    /\ pc # "done"
    /\ loc' = [read |-> TRUE,
               seconds |-> seconds(prev.last_run_ts, prev.now)]
    /\ UNCHANGED <<sprints, defaults, pc, op, args, outcome, log, edits, prev,
                   runs>>

NextRunner ==
    \/ Pass
    \/ ImportDeps
    \/ InitMetrics
    \/ BuildScheduler
    \/ ProcessJobs
    \/ JobWrapperEnds
    \/ Interrupt
    \/ ShutdownReturns
    \/ Scrape

SpecRunner == InitRunner /\ [][NextRunner]_vars

(***************************************************************************)
(* The two threads at the gauges, step by step.  The job thread goes       *)
(* through _job_wrapper: it writes state["last_run_ts"], runs the job and  *)
(* writes state["last_status"], and sets the status gauge in "finally".    *)
(* A thread of the metrics server collects the gauges for a client: for    *)
(* the seconds gauge it calls _seconds, which reads state["last_run_ts"]   *)
(* for the test, then the clock, then state["last_run_ts"] again; for the  *)
(* status gauge it reads the value of the gauge.  A read or a write of a   *)
(* dict entry and a set or a get of a gauge value are one step each; time  *)
(* passes between any two steps.  Here pc is where the job thread is, loc  *)
(* holds where the metrics thread is and what it has read, prev the dict,  *)
(* the status gauge and the clock, log the values the status gauge was     *)
(* set to.                                                                 *)
(***************************************************************************)
InitGauge ==
    /\ sprints = << >>
    /\ defaults = {}
    /\ pc = "idle"
    /\ op = "metrics"
    /\ args = NoArgs
    /\ loc = [at |-> "idle", first |-> None, now |-> 0, second |-> None,
              collected |-> FALSE,
              seconds |-> [nan |-> TRUE, value |-> 0], status |-> 0]
    /\ outcome = "none"
    /\ log = << >>
    /\ edits = 0
    /\ prev = [last_run_ts |-> None, last_status |-> 0, status_gauge |-> 0,
               now |-> ClockStep]
    /\ runs = 0

TimePasses ==
    /\ prev.now + ClockStep <= MaxClock
    /\ prev' = [prev EXCEPT !.now = prev.now + ClockStep]
    /\ UNCHANGED <<sprints, defaults, pc, op, args, loc, outcome, log, edits,
                   runs>>

\* _job_wrapper, line 141: state["last_run_ts"] = time.time()
JobWrapperSetsTs ==
    /\ pc = "idle"
    /\ runs < MaxTicks
    /\ runs' = runs + 1
    /\ pc' = "job"
    /\ prev' = [prev EXCEPT !.last_run_ts = Some(prev.now)]
    /\ UNCHANGED <<sprints, defaults, op, args, loc, outcome, log, edits>>

\* _job_wrapper, lines 142-147: the job ends and last_status is written
JobWrapperJob ==
    /\ pc = "job"
    /\ \E how \in {"ok", "http_error", "exit1"} :
        /\ outcome' = how
        /\ prev' = [prev EXCEPT !.last_status =
                       last_status_after(how, prev.last_status)]
    /\ pc' = "finally"
    /\ UNCHANGED <<sprints, defaults, op, args, loc, log, edits, runs>>

\* _job_wrapper, lines 148-150: status_gauge.set(val)
JobWrapperFinally ==
    /\ pc = "finally"
    /\ pc' = "idle"
    /\ prev' = [prev EXCEPT !.status_gauge = prev.last_status]
    /\ log' = Append(log, prev.last_status)
    /\ UNCHANGED <<sprints, defaults, op, args, loc, outcome, edits, runs>>

\* _seconds, lines 88-89: the test of state["last_run_ts"]
SecondsTest ==
    /\ loc.at = "idle"
    /\ loc' = IF prev.last_run_ts = None
              THEN [loc EXCEPT !.first = None, !.collected = TRUE,
                               !.seconds = seconds(None, prev.now)]
              ELSE [loc EXCEPT !.at = "clock", !.first = prev.last_run_ts,
                               !.collected = FALSE]
    /\ UNCHANGED <<sprints, defaults, pc, op, args, outcome, log, edits, prev,
                   runs>>

\* _seconds, line 90: time.time()
SecondsClock ==
    /\ loc.at = "clock"
    /\ loc' = [loc EXCEPT !.at = "read", !.now = prev.now]
    /\ UNCHANGED <<sprints, defaults, pc, op, args, outcome, log, edits, prev,
                   runs>>

\* _seconds, line 90: state["last_run_ts"] is read again, and the result
SecondsReturn ==
    /\ loc.at = "read"
    /\ loc' = [loc EXCEPT !.at = "idle", !.collected = TRUE,
                          !.second = prev.last_run_ts,
                          !.seconds = seconds(prev.last_run_ts, loc.now)]
    /\ UNCHANGED <<sprints, defaults, pc, op, args, outcome, log, edits, prev,
                   runs>>

\* the value of the status gauge is collected
StatusCollect ==
    /\ loc.at = "idle"
    /\ loc' = [loc EXCEPT !.status = prev.status_gauge]
    /\ UNCHANGED <<sprints, defaults, pc, op, args, outcome, log, edits, prev,
                   runs>>

NextGauge ==
    \/ TimePasses
    \/ JobWrapperSetsTs
    \/ JobWrapperJob
    \/ JobWrapperFinally
    \/ SecondsTest
    \/ SecondsClock
    \/ SecondsReturn
    \/ StatusCollect

SpecGauge == InitGauge /\ [][NextGauge]_vars

(***************************************************************************)
(* get_current_week on a host: the instant is an hour of a day in UTC, the *)
(* host's local time is so many hours ahead of UTC, and date.today() is    *)
(* the date of the host's local time.  Here args holds the instant and the *)
(* offset, log what get_current_week has returned.                         *)
(***************************************************************************)
\* the two weeks from Monday 2025-07-21 and from Monday 2026-12-28
TodayDays ==
    (fromisocalendar(2025, 30, 1)..fromisocalendar(2025, 31, 7))
        \cup (fromisocalendar(2026, 53, 1)..fromisocalendar(2027, 1, 7))

\* the offsets of local time from UTC, in hours
UtcOffsets == -12..14

\* dt.date.today(), line 90: the local date at an hour of a UTC day
date_today(day, hour, utc_offset) ==
    day + ((hour + utc_offset + 24) \div 24) - 1

InitToday ==
    /\ sprints = << >>
    /\ defaults = {}
    /\ pc = "today"
    /\ op = "get_current_week"
    /\ args \in [day : TodayDays, hour : 0..23, utc_offset : UtcOffsets]
    /\ loc = NoLoc
    /\ outcome = "none"
    /\ log = << >>
    /\ edits = 0
    /\ prev = [again |-> FALSE, outcome |-> "none", edited |-> FALSE]
    /\ runs = 0

\* DateUtils.get_current_week, lines 90-92
GetCurrentWeek ==
    /\ pc = "today"
    /\ log = << >>
    /\ log' = <<get_current_week(
                    date_today(args.day, args.hour, args.utc_offset))>>
    /\ outcome' = "ok"
    /\ UNCHANGED <<sprints, defaults, pc, op, args, loc, edits, prev, runs>>

NextToday == GetCurrentWeek

SpecToday == InitToday /\ [][NextToday]_vars

(***************************************************************************)
(* The command line: main of cli.py from the parsed arguments to the exit  *)
(* of the process.  Here prev holds the parsed arguments and, once the     *)
(* process has exited, its exit status; the service call that main makes   *)
(* runs in op, args, loc and log as it does elsewhere.                     *)
(***************************************************************************)
\* a --week token that parse_year_week takes for week 5 of 2025
Week2025_5 == Some(Tok(<<"2", "0", "2", "5">>, <<"5">>))

\* the arguments of a run that has all it needs
GoodLine(mode) ==
    [mode |-> mode, daemon |-> FALSE, board |-> "Board",
     project |-> "Project", field |-> "Sprints", week |-> Week2025_30,
     forward |-> 0, url |-> "https://yt", token |-> "tok", status |-> None]

\* that, and that with one argument missing, blank, unknown or malformed
CommandLines ==
    UNION {{GoodLine(m), [GoodLine(m) EXCEPT !.daemon = TRUE],
            [GoodLine(m) EXCEPT !.url = ""],
            [GoodLine(m) EXCEPT !.token = ""],
            [GoodLine(m) EXCEPT !.forward = 0 - 1],
            [GoodLine(m) EXCEPT !.forward = 1]}
           \cup {[GoodLine(m) EXCEPT !.board = b] :
                    b \in {"", "  ", "Nowhere"}}
           \cup {[GoodLine(m) EXCEPT !.project = q] :
                    q \in {"", "  ", "Nothing"}}
           \cup {[GoodLine(m) EXCEPT !.field = f] : f \in {"", "Stage"}}
           \cup {[GoodLine(m) EXCEPT !.week = w] :
                    w \in OtherWeeks \cup {Week2025_5}} :
           m \in {"sync", "create"}}

\* str.strip of an argument: the names have no blanks around them
stripped(value) == IF value \in {"", "  "} THEN "" ELSE value

\* main, lines 158-179: what main does with the arguments
main_call_sync_only(line) ==
    IF stripped(line.board) = "" THEN "exit1"
    ELSE IF line.url = "" \/ line.token = "" THEN "exit1"
    ELSE IF stripped(line.project) = "" THEN "exit1"
    ELSE IF line.daemon THEN "daemon"
    ELSE "run_sync_once"

main_call(line) ==
    IF stripped(line.board) = "" THEN "exit1"
    ELSE IF line.url = "" \/ line.token = "" THEN "exit1"
    ELSE IF line.mode = "create"
    THEN IF line.daemon THEN "exit1" ELSE "create_sprint_for_week"
    ELSE IF stripped(line.project) = "" THEN "exit1"
    ELSE IF line.daemon THEN "daemon"
    ELSE "run_sync_once"

\* the exit status of the interpreter: the code of SystemExit, 1 after an
\* exception that nothing catches, 0 when main returns
exit_status_of_return(how) == IF how = "exit1" THEN 1 ELSE 0

exit_status(how) == IF how \in {"ok", "exit0"} THEN 0 ELSE 1

InitCli ==
    /\ sprints \in SprintPresets
    /\ defaults \in {{}, {<<9>>}}
    /\ pc = "main"
    /\ op = "main"
    /\ args = NoArgs
    /\ loc = NoLoc
    /\ outcome = "none"
    /\ log = << >>
    /\ edits = 0
    /\ prev \in CommandLines
    /\ runs = 0

\* main, lines 158-179, up to the first gateway call of the service call,
\* whose process_week_parameter gave w
MainCalls(call, w) ==
    /\ pc = "main"
    /\ log' = << >>
    /\ IF call \in {"create_sprint_for_week", "run_sync_once"}
       THEN /\ op' = call
            /\ runs' = runs + 1
            /\ args' = IF call = "create_sprint_for_week"
                       THEN [NoArgs EXCEPT !.board = stripped(prev.board),
                                           !.week = prev.week]
                       ELSE [NoArgs EXCEPT
                               !.board = stripped(prev.board),
                               !.project = stripped(prev.project),
                               !.field = IF stripped(prev.field) = ""
                                         THEN "Sprints"
                                         ELSE stripped(prev.field),
                               !.week = prev.week,
                               !.forward = IF prev.forward > 0
                                           THEN prev.forward ELSE 0]
            /\ loc' = [NoLoc EXCEPT !.year = w.year, !.week = w.week,
                                    !.sprint_name = w.sprint_name,
                                    !.start_ms = w.start_ms,
                                    !.finish_ms = w.finish_ms]
            /\ IF w.result = "ok"
               THEN /\ pc' = IF call = "run_sync_once" THEN "esb_board"
                             ELSE "csw_board"
                    /\ outcome' = "running"
               ELSE End(w.result)
       ELSE /\ IF call = "daemon"
               THEN pc' = "daemon" /\ outcome' = "running"
               ELSE End(call)
            /\ UNCHANGED <<op, args, loc, runs>>
    /\ UNCHANGED <<sprints, defaults, edits, prev>>

Main ==
    \E today \in Todays :
        MainCalls(main_call(prev), process_week_parameter(prev.week, today))

\* main has returned or an exception has left it: the process exits
Exit ==
    /\ pc = "done"
    /\ pc' = "exited"
    /\ prev' = [prev EXCEPT !.status = Some(exit_status(outcome))]
    /\ UNCHANGED <<sprints, defaults, op, args, loc, outcome, log, edits,
                   runs>>

NextCli ==
    \/ Main
    \/ EsbFindBoard
    \/ EsbFindSprint
    \/ EsbCreate
    \/ SdsFindProject
    \/ SdsGetFields
    \/ UfdGet
    \/ UfdDelete
    \/ UfdAdd
    \/ VpdGet
    \/ EfsFindBoard
    \/ EfsExists
    \/ EfsCreate
    \/ CswFindBoard
    \/ CswExists
    \/ CswCreate
    \/ Exit

SpecCli == InitCli /\ [][NextCli]_vars

(***************************************************************************)
(* What the properties are stated with: the gateway calls of the running   *)
(* service call as the log holds them, and the calendar as a table.        *)
(***************************************************************************)

\* the calls of one kind, in the order they were issued
Issued(what) == SelectSeq(log, LAMBDA e : e.call = what)

\* the ids they were issued for
Ids(entries) == [k \in 1..Len(entries) |-> entries[k].id]

\* list holds each member of S exactly once, and nothing else
IsListingOf(list, S) == Len(list) = Cardinality(S) /\ Range(list) = S

RECURSIVE Text(_)
Text(chars) == IF chars = << >> THEN "" ELSE chars[1] \o Text(Tail(chars))

\* the name of the sprint of the week the call was given; with no week
\* given it is the week of the day, 2025-07-30
TargetName ==
    IF args.week = None THEN "2025.31 Sprint"
    ELSE Text(args.week[1]) \o " Sprint"

\* the ids of the bundle values of that name
TargetValues ==
    {BundleValues[k].id :
        k \in {j \in 1..Len(BundleValues) : BundleValues[j].name = TargetName}}

\* the weeks of the calendar from each base week on: the name of the sprint
\* and the day of its Monday, counted from 1970-01-01
Calendar ==
    <<<<[name |-> "2025.30 Sprint", monday |-> 20290],
        [name |-> "2025.31 Sprint", monday |-> 20297],
        [name |-> "2025.32 Sprint", monday |-> 20304],
        [name |-> "2025.33 Sprint", monday |-> 20311]>>,
      <<[name |-> "2025.31 Sprint", monday |-> 20297],
        [name |-> "2025.32 Sprint", monday |-> 20304],
        [name |-> "2025.33 Sprint", monday |-> 20311],
        [name |-> "2025.34 Sprint", monday |-> 20318]>>,
      <<[name |-> "2026.52 Sprint", monday |-> 20808],
        [name |-> "2026.53 Sprint", monday |-> 20815],
        [name |-> "2027.01 Sprint", monday |-> 20822],
        [name |-> "2027.02 Sprint", monday |-> 20829]>>>>

\* the weeks from the week of that name on
WeeksFrom(name) == Calendar[CHOOSE c \in 1..Len(Calendar) : Calendar[c][1].name = name]

\* the create call of a week: its name, Monday 00:00:00.000 and Friday
\* 23:59:59.999
CreateOf(w, status) ==
    Call("create_sprint", w.name, << >>, <<w.monday, 0>>,
         <<w.monday + 4, 86399999>>, status)

\* run_sync_once has ended without an error
RunCompleted == op = "run_sync_once" /\ pc = "done" /\ outcome = "ok"

\* the current call has fetched the defaults
HasFetched == Issued("get_defaults") # << >>

\* the ids of the defaults update_field_default_values fetched (an entry
\* without an id has none), and those it was asked for
FetchedIds == {d \in Issued("get_defaults")[1].ids : d # << >>}

DesiredIds ==
    IF op = "update_field_default_values" THEN Range(args.value_ids)
    ELSE TargetValues

\* update_field_default_values has returned to its caller
UpdateReturned ==
    /\ HasFetched
    /\ pc \notin {"ufd_delete", "ufd_add"}
    /\ ~(pc = "done" /\ outcome = "http_error"
         /\ log[Len(log)].call \in {"get_defaults", "delete_default", "add_default"})

(***************************************************************************)
(* C1.  A run_sync_once that completes without error, with nobody else     *)
(* editing the defaults meanwhile, leaves the default values of the field  *)
(* equal to exactly {v}, v the id of the bundle value named like the       *)
(* sprint of the target week, whatever the defaults were before.           *)
(***************************************************************************)
C1_DefaultsAreTheTargetValue ==
    (RunCompleted /\ edits = 0) =>
        /\ Cardinality(TargetValues) = 1
        /\ defaults = TargetValues

\* a run that removed two other defaults and added the target's value
C1_Witness ==
    /\ RunCompleted /\ edits = 0
    /\ Len(Issued("delete_default")) = 2
    /\ Len(Issued("add_default")) = 1
    /\ defaults = TargetValues

(***************************************************************************)
(* C2.  When run_sync_once has completed and is run again with the same    *)
(* arguments, nobody else having changed the defaults, the second run      *)
(* issues no add and no remove of a default value.                         *)
(***************************************************************************)
SecondRun ==
    /\ op = "run_sync_once"
    /\ prev.again /\ prev.outcome = "ok" /\ ~prev.edited

C2_SecondRunWritesNoDefaults ==
    SecondRun =>
        /\ Issued("delete_default") = << >>
        /\ Issued("add_default") = << >>

\* a second run that got as far as its end, having fetched the defaults
C2_Witness ==
    /\ SecondRun /\ pc = "done" /\ outcome = "ok"
    /\ Len(Issued("get_defaults")) = 1
    /\ Issued("get_defaults")[1].status = StatusOk

(***************************************************************************)
(* C3.  update_field_default_values, for the fetched set C and the wanted  *)
(* set D, issues a delete for exactly the ids of C \ D and an add for      *)
(* exactly the ids of D \ C, each once; when C = D it issues no write.     *)
(* A fetched entry without an id counts for nothing.                       *)
(***************************************************************************)
C3_DiffIsMinimal ==
    UpdateReturned =>
        /\ IsListingOf(Ids(Issued("delete_default")), FetchedIds \ DesiredIds)
        /\ IsListingOf(Ids(Issued("add_default")), DesiredIds \ FetchedIds)
        /\ FetchedIds = DesiredIds =>
              Issued("delete_default") = << >> /\ Issued("add_default") = << >>

\* an update that removed a value, added a value and left a value alone,
\* the fetch having held an entry without an id
C3_Witness ==
    /\ UpdateReturned
    /\ << >> \in Issued("get_defaults")[1].ids
    /\ Issued("delete_default") # << >>
    /\ Issued("add_default") # << >>
    /\ FetchedIds \cap DesiredIds # {}

(***************************************************************************)
(* C4.  update_field_default_values issues every removal before any        *)
(* addition, the removals in ascending order of the ids and the additions  *)
(* in ascending order of the ids (ids are compared as str: "10" < "2"), so *)
(* the sequence of the writes is fixed by the two sets.                    *)
(***************************************************************************)
\* the ids of the bundle values in ascending order
IdsAscending == <<<<1, 0>>, <<2>>, <<9>>>>

IdRank(id) == CHOOSE k \in 1..Len(IdsAscending) : IdsAscending[k] = id

IsWrite(e) == e.call \in {"delete_default", "add_default"}

C4_RemovalsThenAdditionsAscending ==
    \A i, j \in 1..Len(log) :
        (i < j /\ IsWrite(log[i]) /\ IsWrite(log[j])) =>
            /\ ~(log[i].call = "add_default" /\ log[j].call = "delete_default")
            /\ log[i].call = log[j].call => IdRank(log[i].id) < IdRank(log[j].id)

\* "10" and "2" were removed, in this order, and then "9" was added
C4_Witness ==
    /\ UpdateReturned
    /\ Ids(Issued("delete_default")) = <<<<1, 0>>, <<2>>>>
    /\ Ids(Issued("add_default")) = <<<<9>>>>
    /\ log[Len(log)].call = "add_default"

(***************************************************************************)
(* C5.  A delete of a default value that is answered 404 counts as done:   *)
(* the update goes on, the removals and additions that remain are issued   *)
(* and the call ends without error.  A delete answered with any other      *)
(* error status ends the call with that error, and nothing is issued after *)
(* it.                                                                     *)
(***************************************************************************)
NotFoundDelete(e) == e.call = "delete_default" /\ e.status = StatusNotFound

FailedDelete(e) == e.call = "delete_default" /\ e.status \in ErrorStatuses

NoCallFailed == \A k \in 1..Len(log) : log[k].status \notin ErrorStatuses

EndedWithError == pc = "done" /\ outcome = "http_error"

C5_Delete404IsSuccess ==
    /\ \A k \in 1..Len(log) :
        /\ NotFoundDelete(log[k]) => ~(k = Len(log) /\ EndedWithError)
        /\ FailedDelete(log[k]) => (k = Len(log) /\ EndedWithError)
    /\ (pc = "done" /\ NoCallFailed /\ \E k \in 1..Len(log) : NotFoundDelete(log[k])) =>
        /\ outcome = "ok"
        /\ IsListingOf(Ids(Issued("delete_default")), FetchedIds \ DesiredIds)
        /\ IsListingOf(Ids(Issued("add_default")), DesiredIds \ FetchedIds)

\* a delete was answered 404, the next removal and an addition followed,
\* and the call ended without error
C5_Witness ==
    /\ pc = "done" /\ outcome = "ok"
    /\ Len(Issued("delete_default")) = 2
    /\ NotFoundDelete(Issued("delete_default")[1])
    /\ Issued("delete_default")[2].status = StatusOk
    /\ Len(Issued("add_default")) = 1

(***************************************************************************)
(* C6.  The board starts with no two sprints of a name, and after any      *)
(* sequence of run_sync_once, ensure_sprint_on_board, ensure_future_sprints *)
(* and create_sprint_for_week, nobody else writing, it still holds at most *)
(* one sprint of a name: a create is issued only right after a lookup of   *)
(* that name that found no sprint of it.                                   *)
(***************************************************************************)
IsLookup(e) == e.call \in {"find_sprint_id", "sprint_exists"} /\ e.status = StatusOk

OnBoard(name) == \E k \in 1..Len(sprints) : sprints[k].name = name

SprintsKept ==
    /\ Len(sprints') >= Len(sprints)
    /\ \A k \in 1..Len(sprints) : sprints'[k] = sprints[k]

C7_SprintsOnlyGrow == [][SprintsKept]_vars

\* run_sync_once for 2025.30 completed on the board whose sprint 2025.30
\* has other dates, created a forward sprint, and the sprint is as it was
C7_Witness ==
    /\ RunCompleted
    /\ TargetName = "2025.30 Sprint"
    /\ Issued("create_sprint") # << >>
    /\ Len(sprints) >= 3
    /\ sprints[1].name = "2025.30 Sprint"
    /\ sprints[1].start = <<20291, 0>>
    /\ sprints[1].finish = <<20300, 0>>

(***************************************************************************)
(* C8.  create_sprint_for_week, when a sprint of the week's name is on the *)
(* board, ends as "already exists" (exit status 0, neither the normal      *)
(* return nor a failure) and issues no create; when there is none it       *)
(* issues exactly one create, with the name and the range of the week.     *)
(***************************************************************************)
CreateEnded == op = "create_sprint_for_week" /\ pc = "done"

\* the sprint of that name is the last of the board, and the only one of
\* that name: this call created it
CreatedNow(name) ==
    /\ sprints # << >>
    /\ \A k \in 1..Len(sprints) : sprints[k].name = name <=> k = Len(sprints)

C8_CreateOnlyWhenAbsent ==
    /\ (CreateEnded /\ outcome = "exit0") =>
        /\ Issued("create_sprint") = << >>
        /\ OnBoard(TargetName)
    /\ (CreateEnded /\ outcome = "ok") =>
        /\ Issued("create_sprint") = <<CreateOf(WeeksFrom(TargetName)[1], StatusOk)>>
        /\ CreatedNow(TargetName)
    /\ (CreateEnded /\ NoCallFailed /\ args.board = "Board"
            /\ TargetName \in {Calendar[c][1].name : c \in 1..Len(Calendar)}) =>
        outcome \in {"ok", "exit0"}

\* the call made again for a week whose sprint its first run had created
C8_Witness ==
    /\ CreateEnded /\ outcome = "exit0"
    /\ prev.again /\ prev.outcome = "ok"
    /\ TargetName = "2026.52 Sprint"

(***************************************************************************)
(* C9.  When the sprints of the target week and of the N weeks after it    *)
(* are not on the board and the bundle holds the value of the target week, *)
(* a run_sync_once with forward N that completes issues exactly N + 1      *)
(* creates, for the target week and the weeks after it in this order, each *)
(* with its name and its range Monday to Friday, and one update of the     *)
(* defaults, to the single value of the target week.                       *)
(***************************************************************************)
ForwardCount == IF args.forward > 0 THEN args.forward ELSE 0

\* the sprints that were on the board when the run started
SprintsBefore == SubSeq(sprints, 1, Len(sprints) - Len(Issued("create_sprint")))

NoneOnBoardBefore ==
    \A i \in 1..(ForwardCount + 1), k \in 1..Len(SprintsBefore) :
        SprintsBefore[k].name # WeeksFrom(TargetName)[i].name

C9_CreatesTargetAndForwardWeeks ==
    (RunCompleted /\ NoneOnBoardBefore) =>
        /\ Issued("create_sprint") =
              [i \in 1..(ForwardCount + 1) |->
                  CreateOf(WeeksFrom(TargetName)[i], StatusOk)]
        /\ Len(Issued("get_defaults")) = 1
        /\ loc.value_ids = as_list(TargetValues)
        /\ Cardinality(TargetValues) = 1
        /\ \A k \in 1..Len(log) : IsWrite(log[k]) =>
              (log[k].call = "add_default" => log[k].id \in TargetValues)

\* a run for 2026.52 with forward 2 that created three sprints
C9_Witness ==
    /\ RunCompleted /\ NoneOnBoardBefore
    /\ TargetName = "2026.52 Sprint"
    /\ args.forward = 2
    /\ Len(Issued("create_sprint")) = 3

(***************************************************************************)
(* C10.  The week after a week is the next week of the ISO calendar: after *)
(* the last week of a year comes week 1 of the next year, and after week   *)
(* 52 comes week 53 of the same year exactly when the year has 53 weeks.   *)
(* So 2023.51 is followed by 2023.52 and 2024.01, and 2026.52 by 2026.53   *)
(* and 2027.01.                                                            *)
(***************************************************************************)
\* the years of 53 ISO weeks among the years of the base weeks
LongYears == {2020, 2026}

WeeksIn(y) == IF y \in LongYears THEN 53 ELSE 52

WeekAfter(w) ==
    IF w.week = WeeksIn(w.year) THEN [year |-> w.year + 1, week |-> 1]
    ELSE [year |-> w.year, week |-> w.week + 1]

BaseWeek == [year |-> loc.year, week |-> loc.week]

C10_ForwardWeeksFollowIsoCalendar ==
    pc = "weeks" =>
        /\ \A k \in 1..Len(log) :
              log[k] = WeekAfter(IF k = 1 THEN BaseWeek ELSE log[k - 1])
        /\ (BaseWeek = [year |-> 2023, week |-> 51] /\ Len(log) >= 2) =>
              /\ log[1] = [year |-> 2023, week |-> 52]
              /\ log[2] = [year |-> 2024, week |-> 1]
        /\ (BaseWeek = [year |-> 2026, week |-> 52] /\ Len(log) >= 2) =>
              /\ log[1] = [year |-> 2026, week |-> 53]
              /\ log[2] = [year |-> 2027, week |-> 1]

\* the two weeks after 2026.52 have been computed
C10_Witness ==
    /\ pc = "weeks"
    /\ BaseWeek = [year |-> 2026, week |-> 52]
    /\ Len(log) = 2

(***************************************************************************)
(* C11.  Advancing a week by k is advancing it by one week k times: the    *)
(* k-th forward week is the ISO week of the base Monday plus 7k days, so   *)
(* the forward weeks are weeks of the calendar, pairwise distinct, each    *)
(* the week after the one before, and none is the base week.               *)
(***************************************************************************)
MondayOf(w) == fromisocalendar(w.year, w.week, 1)

WeekBefore(k) == IF k = 1 THEN BaseWeek ELSE log[k - 1]

C11_ForwardByKIsKTimesForwardByOne ==
    pc = "weeks" =>
        \A k \in 1..Len(log) :
            /\ log[k] = forward_week(WeekBefore(k).year, WeekBefore(k).week, 1)
            /\ iso_week_valid(log[k].year, log[k].week)
            /\ MondayOf(log[k]) = MondayOf(BaseWeek) + 7 * k
            /\ isocalendar(MondayOf(BaseWeek) + 7 * k)
                   = <<log[k].year, log[k].week, 1>>
            /\ log[k] # BaseWeek
            /\ \A j \in 1..Len(log) : j # k => log[j] # log[k]

\* the two weeks after week 52 of a year of 53 weeks have been computed
C11_Witness ==
    /\ pc = "weeks"
    /\ BaseWeek = [year |-> 2020, week |-> 52]
    /\ Len(log) = 2
    /\ log[1] # log[2]

(***************************************************************************)
(* C12.  For every valid week, iso_week_range_utc returns a start before   *)
(* the finish, a first date that is the Monday of the week, a second date  *)
(* that is a Friday, and the Friday is 4 days after the Monday.            *)
(***************************************************************************)
MsBefore(a, b) == a[1] < b[1] \/ (a[1] = b[1] /\ a[2] < b[2])

RangeReturned == pc = "range" /\ log # << >>

C12_RangeIsMondayToFriday ==
    RangeReturned =>
        /\ MsBefore(log[1].start_ms, log[1].finish_ms)
        /\ log[1].monday % 7 = 1
        /\ log[1].friday % 7 = 5
        /\ log[1].friday = log[1].monday + 4
        /\ isocalendar(log[1].monday) = <<loc.year, loc.week, 1>>

\* the range of week 53 of 2026, which ends in 2027, has been computed
C12_Witness ==
    /\ RangeReturned
    /\ loc.year = 2026 /\ loc.week = 53
    /\ log[1].friday = log[1].monday + 4

(***************************************************************************)
(* C13.  start_ms is exactly Monday 00:00:00.000 UTC and finish_ms exactly *)
(* Friday 23:59:59.999 UTC in whole milliseconds since the epoch: start_ms *)
(* is a multiple of a day and finish_ms is start_ms plus five days less    *)
(* one millisecond, so the conversion through float seconds loses nothing. *)
(***************************************************************************)
C13_RangeIsExactMilliseconds ==
    RangeReturned =>
        /\ log[1].start_ms = <<log[1].monday - EpochOrdinal, 0>>
        /\ log[1].finish_ms = <<log[1].friday - EpochOrdinal, MsPerDay - 1>>
        /\ log[1].finish_ms[1] = log[1].start_ms[1] + 4

\* the range of week 2 of 1987 ends a millisecond early, at 23:59:59.998
C13_Witness ==
    /\ RangeReturned
    /\ loc.year = 1987 /\ loc.week = 2
    /\ log[1].start_ms = <<log[1].monday - EpochOrdinal, 0>>
    /\ log[1].finish_ms = <<log[1].friday - EpochOrdinal, MsPerDay - 2>>

(***************************************************************************)
(* C14.  A week the ISO calendar does not have (2025.53: 2025 has 52       *)
(* weeks) makes the range computation fail with the ValueError of the      *)
(* calendar, and run_sync_once or create_sprint_for_week given such a week *)
(* fails before any gateway read or write.                                 *)
(***************************************************************************)
WeekNotInCalendar ==
    args.week = Some(Tok(<<"2", "0", "2", "5">>, <<"5", "3">>))

CalledWithWeek ==
    pc # "idle" /\ op \in {"run_sync_once", "create_sprint_for_week"}

C14_InvalidWeekFailsBeforeAnyCall ==
    (CalledWithWeek /\ WeekNotInCalendar) =>
        /\ pc = "done"
        /\ outcome = "value_error"
        /\ log = << >>

\* create_sprint_for_week has been given 2025.53 and has failed
C14_Witness ==
    /\ op = "create_sprint_for_week"
    /\ WeekNotInCalendar
    /\ pc = "done"
    /\ outcome = "value_error"

(***************************************************************************)
(* C15.  parse_year_week returns the year and the week of a "YYYY.WW"      *)
(* text, and fails with a format error for every text that is not four     *)
(* digits, a dot and two digits, or whose week is outside 1..53; when it   *)
(* succeeds, the sprint name of the parsed week is the text followed by    *)
(* " Sprint".                                                              *)
(***************************************************************************)
ParseText == args.week[1]

ParseEnded == pc = "parse" /\ outcome # "none"

IsYYYYWW(t) ==
    /\ Len(t) = 7
    /\ \A k \in {1, 2, 3, 4, 6, 7} : IsDigit(t[k])
    /\ t[5] = "."

YearOfText(t) ==
    DigitVal(t[1]) * 1000 + DigitVal(t[2]) * 100 + DigitVal(t[3]) * 10
        + DigitVal(t[4])

WeekOfText(t) == DigitVal(t[6]) * 10 + DigitVal(t[7])

WellFormed(t) == IsYYYYWW(t) /\ 1 <= WeekOfText(t) /\ WeekOfText(t) <= 53

C15_ParseAcceptsExactlyYYYYWW ==
    ParseEnded =>
        /\ outcome = (IF WellFormed(ParseText) THEN "ok" ELSE "format_error")
        /\ outcome = "ok" =>
              /\ loc.year = YearOfText(ParseText)
              /\ loc.week = WeekOfText(ParseText)
              /\ loc.sprint_name = Text(ParseText) \o " Sprint"

\* the text 2025.5 has been parsed, as week 5 of 2025, named 2025.05 Sprint
C15_Witness ==
    /\ ParseEnded
    /\ ParseText = <<"2", "0", "2", "5", ".", "5">>
    /\ outcome = "ok"
    /\ loc.year = 2025 /\ loc.week = 5
    /\ loc.sprint_name = "2025.05 Sprint"

(***************************************************************************)
(* C16.  The sprint name of a week is the year, a dot, the week written    *)
(* with two digits and " Sprint", and it identifies the week: no other     *)
(* year and week in 1..53 get the same name.                               *)
(***************************************************************************)
\* years written with one to four digits
NameYears == {2, 20, 202, 2025, 2026}

TwoDigits(n) == DigitChars[(n \div 10) + 1] \o DigitChars[(n % 10) + 1]

FourDigits(n) == TwoDigits(n \div 100) \o TwoDigits(n % 100)

Named == pc = "range" /\ loc.sprint_name # ""

C16_NameIdentifiesTheWeek ==
    Named =>
        /\ loc.sprint_name
              = FourDigits(loc.year) \o "." \o TwoDigits(loc.week) \o " Sprint"
        /\ \A y \in NameYears \cup {loc.year - 1, loc.year, loc.year + 1},
              w \in 1..53 :
              <<y, w>> # <<loc.year, loc.week>>
                  => format_sprint_name(y, w) # loc.sprint_name

\* week 5 of 2025 has been named
C16_Witness ==
    /\ Named
    /\ loc.year = 2025 /\ loc.week = 5
    /\ loc.sprint_name = "2025.05 Sprint"

(***************************************************************************)
(* C17.  When the board is not found, ensure_sprint_on_board, and with it  *)
(* run_sync_once, fails with exit status 1 and issues no other call: no    *)
(* sprint lookup, no create, no read of the project or the field, no       *)
(* change of the defaults.  The board is looked up before anything else.   *)
(***************************************************************************)
EnsuresSprint ==
    pc # "idle" /\ op \in {"ensure_sprint_on_board", "run_sync_once"}

\* the tracker has no board of the name the call was given, and has said so
BoardNotFound ==
    /\ args.board = "Nowhere"
    /\ log # << >>
    /\ log[1].call = "find_board_id" /\ log[1].status = StatusOk

C17_NoBoardNoOtherCall ==
    EnsuresSprint =>
        /\ log # << >> => log[1].call = "find_board_id"
        /\ BoardNotFound =>
              /\ pc = "done"
              /\ outcome = "exit1"
              /\ Len(log) = 1

\* run_sync_once has looked for the board Nowhere and has exited with 1
C17_Witness ==
    /\ op = "run_sync_once"
    /\ BoardNotFound
    /\ pc = "done"
    /\ outcome = "exit1"

(***************************************************************************)
(* C18.  When the project, the field or the bundle value named like the    *)
(* sprint is missing, set_project_default_sprint fails with exit status 1  *)
(* and issues no add and no remove of a default value: the failed run      *)
(* leaves the defaults of the field as they were.                          *)
(***************************************************************************)
\* run_sync_once, on a board the tracker has, was given a project or a field
\* the tracker does not have, or the week 2025.31 that has no bundle value
TargetMissing ==
    /\ pc # "idle"
    /\ op = "run_sync_once"
    /\ args.board = "Board"
    /\ \/ args.project = "Nothing"
       \/ args.field = "Stage"
       \/ args.week = None

SetDefaultFailed ==
    /\ \A k \in 1..Len(log) :
          log[k].call \notin {"get_defaults", "delete_default", "add_default"}
    /\ (pc = "done" /\ NoCallFailed) =>
          /\ outcome = "exit1"
          /\ log[Len(log)].call \in {"find_project_id", "get_project_fields"}

C18_MissingTargetLeavesDefaults ==
    /\ [](TargetMissing => SetDefaultFailed)
    /\ [][TargetMissing => defaults' = defaults]_vars

\* the run for the week 2025.31 has read the fields of the project, found
\* no value of that name, and exited with 1, the defaults being non-empty
C18_Witness ==
    /\ TargetMissing
    /\ args.week = None
    /\ pc = "done"
    /\ outcome = "exit1"
    /\ NoCallFailed
    /\ log[Len(log)].call = "get_project_fields"
    /\ defaults # {}

(***************************************************************************)
(* C19.  In the daemon, a tick whose job returns sets the status gauge to  *)
(* 1; a tick whose job raises has the exception caught in the job wrapper, *)
(* not raised on to the scheduler, and sets the gauge to 0.  So after      *)
(* every finished tick the gauge tells how the last finished tick ended.   *)
(***************************************************************************)
Ticks == prev.ticks

DaemonWaits == pc = "daemon_wait" /\ Ticks # << >>

TickIsTold(t) ==
    /\ t.outcome = "ok" => t.gauge = 1
    /\ t.outcome # "ok" => (t.gauge = 0 /\ ~t.raised)

C19_GaugeTellsLastTick ==
    DaemonWaits =>
        /\ \A k \in 1..Len(Ticks) : TickIsTold(Ticks[k])
        /\ prev.last_status = (IF outcome = "ok" THEN 1 ELSE 0)

\* a tick has failed with an exception the wrapper caught, the gauge is 0,
\* and the tick after it has succeeded, the gauge is 1
C19_Witness ==
    /\ DaemonWaits
    /\ Len(Ticks) = 2
    /\ Ticks[1] = [outcome |-> "http_error", gauge |-> 0, raised |-> FALSE]
    /\ Ticks[2] = [outcome |-> "ok", gauge |-> 1, raised |-> FALSE]

(***************************************************************************)
(* C20.  In the daemon, a tick whose run finds the board, the project, the *)
(* field or the bundle value missing is marked as failed: the status gauge *)
(* is 0 after it, also when the tick before had succeeded; and the daemon  *)
(* goes on to wait for the next tick.                                      *)
(***************************************************************************)
NotFoundTick(k) == Ticks[k].outcome = "exit1"

C20_NotFoundTickIsMarkedFailed ==
    \A k \in 1..Len(Ticks) :
        NotFoundTick(k) =>
            /\ Ticks[k].gauge = 0
            /\ (k = Len(Ticks) /\ pc = "daemon_wait") => prev.last_status = 0

\* with no --week, the tick of week 2025.30 has succeeded, the tick of week
\* 2025.31 has found no bundle value of that name, and the gauge is still 1
C20_Witness ==
    /\ DaemonWaits
    /\ args.week = None
    /\ Len(Ticks) = 2
    /\ Ticks[1].outcome = "ok"
    /\ NotFoundTick(2)
    /\ Ticks[2].gauge = 1
    /\ loc.sprint_name = "2025.31 Sprint"

(***************************************************************************)
(* The runner of the daemon: the ticks the scheduler has dealt with, as    *)
(* the log holds them.  A tick is a run time of the job; it was run (the   *)
(* job wrapper started for it), missed (dropped as too late) or skipped    *)
(* (the job was still running).                                            *)
(***************************************************************************)
Whats(what) == {i \in 1..Len(log) : log[i].what = what}

Late(i) == log[i].at - log[i].run_time

LastOf(S) == CHOOSE i \in S : \A j \in S : j <= i

InFlight == Len(prev.workers)

(***************************************************************************)
(* C21.  The seconds gauge reports not-a-number exactly as long as no tick *)
(* has started; once a tick has started it reports the seconds since the   *)
(* start of the tick that started last, a number that is never negative,   *)
(* whether that tick is still running, has succeeded or has failed.        *)
(***************************************************************************)
GaugeNow == seconds(prev.last_run_ts, prev.now)

C21_SecondsGaugeCountsFromLastStart ==
    prev.metrics =>
        /\ GaugeNow.nan <=> Whats("run") = {}
        /\ Whats("run") # {} =>
              /\ GaugeNow.value = prev.now - log[LastOf(Whats("run"))].at
              /\ GaugeNow.value >= 0

\* the gauge has been read some time after the start of a tick that has
\* failed since: the status gauge is 0, the seconds count from its start
C21_Witness ==
    /\ loc.read
    /\ loc.seconds = GaugeNow
    /\ ~loc.seconds.nan
    /\ loc.seconds.value > 0
    /\ runs = 1
    /\ InFlight = 0
    /\ prev.last_status = 0

(***************************************************************************)
(* C22.  At most one execution of the job is in progress at any time: a    *)
(* tick that is due while the tick before is still running starts no       *)
(* second execution.                                                       *)
(***************************************************************************)
C22_NoOverlappingExecutions ==
    /\ [](InFlight <= 1)
    /\ [][(InFlight >= 1 /\ prev'.next_run_time # prev.next_run_time)
              => (runs' = runs /\ InFlight' = InFlight)]_vars

\* a tick was due while the job was running: it was skipped, and the job
\* of the tick before is still running
C22_Witness ==
    /\ Whats("skipped") # {}
    /\ InFlight = 1
    /\ runs = 1

(***************************************************************************)
(* C23.  The daemon runs until it is interrupted: start returns only after *)
(* an interrupt.  From the interrupt on no tick is started, and start      *)
(* returns only when no tick is in flight any more.                        *)
(***************************************************************************)
Interrupted == Whats("shutdown") # {}

Dealt == Whats("run") \cup Whats("missed")

NoReplay ==
    \A i, j \in Whats("run") : log[i].at = log[j].at => i = j

C25_MetricsServerBeforeScheduler ==
    /\ prev.scheduler # "none" => prev.metrics
    /\ \A i \in 1..Len(log) :
          log[i].what # "start_http_server" =>
              \E j \in 1..(i - 1) : log[j].what = "start_http_server"

\* the first tick has run, with the metrics server up since before
C25_Witness ==
    /\ Whats("run") # {}
    /\ prev.metrics
    /\ log[1].what = "start_http_server"
    /\ log[2].what = "scheduler.start"

(***************************************************************************)
(* C26.  When the libraries of the daemon cannot be imported, start ends   *)
(* with exit status 1 before the metrics server is started and before any  *)
(* job is scheduled, and the job is never invoked.                         *)
(***************************************************************************)
ImportFailed == ~args.deps /\ pc # "import_deps"

C26_ImportFailureExitsBeforeAnything ==
    (op = "start" /\ ImportFailed) =>
        /\ pc = "done"
        /\ outcome = "exit1"
        /\ log = << >>
        /\ ~prev.metrics
        /\ prev.scheduler = "none"
        /\ runs = 0

\* the import has failed and start has ended with exit status 1
C26_Witness ==
    /\ op = "start"
    /\ ImportFailed
    /\ outcome = "exit1"

(***************************************************************************)
(* C27.  In the daemon without --week every tick resolves its week afresh  *)
(* on the day of the tick: the tick targets the ISO week of its day, so    *)
(* the first tick in a new week ensures the sprint of the new week and,    *)
(* when it succeeds, points the default at it.  With --week every tick     *)
(* targets that same week.                                                 *)
(***************************************************************************)
\* the days of the ticks, 2025-07-16 to 2025-08-11, and their ISO weeks
WeekOfTickDay ==
    [d \in {739448, 739453, 739455, 739460, 739467, 739474} |->
        CASE d = 739448 -> "2025.29 Sprint"
          [] d \in {739453, 739455} -> "2025.30 Sprint"
          [] d = 739460 -> "2025.31 Sprint"
          [] d = 739467 -> "2025.32 Sprint"
          [] d = 739474 -> "2025.33 Sprint"]

TickTarget ==
    IF args.week = None THEN WeekOfTickDay[prev.day] ELSE "2025.30 Sprint"

TickSucceeded == pc = "done" /\ outcome = "ok"

C27_EveryTickResolvesItsWeekAfresh ==
    (op = "run_sync_once" /\ runs >= 1) =>
        /\ loc.sprint_name = TickTarget
        /\ TickSucceeded =>
              /\ OnBoard(TickTarget)
              /\ \E k \in 1..Len(BundleValues) :
                    /\ BundleValues[k].name = TickTarget
                    /\ defaults = {BundleValues[k].id}

\* without --week the daemon was started in week 2025.29, whose tick has
\* created that week's sprint; the tick of the Monday after has created the
\* sprint of week 2025.30 and has pointed the default at its value
C27_Witness ==
    /\ args.week = None
    /\ runs = 2
    /\ TickSucceeded
    /\ loc.sprint_name = "2025.30 Sprint"
    /\ OnBoard("2025.29 Sprint")
    /\ OnBoard("2025.30 Sprint")
    /\ defaults = {<<2>>}

(***************************************************************************)
(* C28.  The current week is the ISO week of the UTC date of the current   *)
(* instant: whatever the offset of the host's local time from UTC,         *)
(* get_current_week returns the ISO year and week of the UTC date, also in *)
(* the hours around the turn of the week where the local date and the UTC  *)
(* date differ.                                                            *)
(***************************************************************************)
\* the ISO weeks of the UTC days, by the ordinals of their Mondays
\* (2025-07-21, 2025-07-28, 2026-12-28, 2027-01-04)
UtcWeeks ==
    <<[monday |-> 739453, year |-> 2025, week |-> 30],
      [monday |-> 739460, year |-> 2025, week |-> 31],
      [monday |-> 739978, year |-> 2026, week |-> 53],
      [monday |-> 739985, year |-> 2027, week |-> 1]>>

UtcWeekOf(day) ==
    UtcWeeks[CHOOSE k \in 1..Len(UtcWeeks) :
                 day \in UtcWeeks[k].monday..(UtcWeeks[k].monday + 6)]

CurrentWeekReturned == op = "get_current_week" /\ log # << >>

C28_CurrentWeekIsOfUtcDate ==
    CurrentWeekReturned =>
        /\ log[1].year = UtcWeekOf(args.day).year
        /\ log[1].week = UtcWeekOf(args.day).week

\* Monday 2025-07-28 08:00 UTC, the time of the default cron, on a host ten
\* hours behind UTC: it is Sunday there, and the week returned is 2025.30
C28_Witness ==
    /\ CurrentWeekReturned
    /\ args = [day |-> 739460, hour |-> 8, utc_offset |-> -10]
    /\ log[1].year = 2025
    /\ log[1].week = 30

(***************************************************************************)
(* The command line in the properties: what is wrong with the arguments,   *)
(* by the names the tracker knows and the form YYYY.WW.                    *)
(***************************************************************************)
Exited == pc = "exited"

SyncMode == prev.mode = "sync"

CreateMode == prev.mode = "create"

MissingName ==
    \/ prev.board \in {"", "  "}
    \/ SyncMode /\ prev.project \in {"", "  "}

MissingAuth == prev.url = "" \/ prev.token = ""

MalformedWeek == prev.week # None /\ ~IsYYYYWW(prev.week[1])

\* week 53 of 2025, a year of 52 weeks
NoSuchWeek == prev.week = Some(<<"2", "0", "2", "5", ".", "5", "3">>)

\* the board, the project, the field or the week's bundle value (without
\* --week: week 2025.31) is not in the tracker
NotInTracker ==
    \/ prev.board = "Nowhere"
    \/ SyncMode /\ (prev.project = "Nothing" \/ prev.field = "Stage"
                       \/ prev.week = None)

RunFailure ==
    \/ MissingName
    \/ MissingAuth
    \/ MalformedWeek
    \/ NoSuchWeek
    \/ NotInTracker
    \/ CreateMode /\ prev.daemon

LastCall(what) ==
    /\ log # << >>
    /\ log[Len(log)].call = what
    /\ log[Len(log)].status = StatusOk

SyncSucceeded ==
    /\ op = "run_sync_once"
    /\ OnBoard(loc.sprint_name)
    /\ \E k \in 1..Len(BundleValues) :
          /\ BundleValues[k].name = loc.sprint_name
          /\ defaults = {BundleValues[k].id}

CreateSucceeded ==
    /\ op = "create_sprint_for_week"
    /\ LastCall("create_sprint")
    /\ OnBoard(loc.sprint_name)

AlreadyExisted ==
    /\ op = "create_sprint_for_week"
    /\ LastCall("sprint_exists")
    /\ OnBoard(loc.sprint_name)

(***************************************************************************)
(* C29.  A single run exits with status 0 when the run succeeded or, in    *)
(* create mode, the sprint already existed, and with status 1 on every     *)
(* failure of validation or reconciliation: a missing board or project     *)
(* name, a missing URL or token, a malformed week, a board, project, field *)
(* or bundle value that is not found.                                      *)
(***************************************************************************)
C29_ExitStatusTellsFailure ==
    Exited =>
        /\ prev.status \in {Some(0), Some(1)}
        /\ RunFailure => prev.status = Some(1)
        /\ prev.status = Some(0) =>
              (SyncSucceeded \/ CreateSucceeded \/ AlreadyExisted)

\* --create --week 2025.5: the week is malformed, the sprint "2025.05
\* Sprint" has been created and the exit status is 0
C29_Witness ==
    /\ Exited
    /\ CreateMode
    /\ prev.week = Week2025_5
    /\ MalformedWeek
    /\ CreateSucceeded
    /\ OnBoard("2025.05 Sprint")
    /\ prev.status = Some(0)

(***************************************************************************)
(* C30.  Create mode never touches the defaults of the project: it looks   *)
(* up no project, reads no field, adds and removes no default and creates  *)
(* no sprint of a later week, whatever --forward says; main calls          *)
(* create_sprint_for_week and never run_sync_once; and with --daemon it    *)
(* exits with status 1 before any call.                                    *)
(***************************************************************************)
C30_CreateModeLeavesDefaultsAlone ==
    /\ [](CreateMode =>
            /\ op \in {"main", "create_sprint_for_week"}
            /\ \A k \in 1..Len(log) :
                  /\ log[k].call \in {"find_board_id", "sprint_exists",
                                      "create_sprint"}
                  /\ log[k].call # "find_board_id" =>
                        log[k].name = loc.sprint_name
            /\ Len(Issued("create_sprint")) <= 1
            /\ (prev.daemon /\ pc # "main") =>
                  /\ op = "main"
                  /\ log = << >>
                  /\ outcome = "exit1"
                  /\ Exited => prev.status = Some(1))
    /\ [][CreateMode => defaults' = defaults]_vars

\* --create --forward 1 has created the sprint of week 2025.30 and no other
\* and has exited; the default is the one of before
C30_Witness ==
    /\ CreateMode
    /\ prev.forward = 1
    /\ Exited
    /\ prev.status = Some(0)
    /\ Len(sprints) = 1
    /\ sprints[1].name = "2025.30 Sprint"
    /\ Len(Issued("create_sprint")) = 1
    /\ defaults = {<<9>>}

(***************************************************************************)
(* C31.  run_sync_once goes through its steps strictly in this order:      *)
(* resolve the week, ensure the sprint of the week, set the default of the *)
(* project, verify the defaults (a read), ensure the forward sprints.      *)
(* When a step fails no later gateway call is issued, no call is made a    *)
(* second time within the run, and what earlier steps have written (the    *)
(* created sprint) stays in place.                                         *)
(***************************************************************************)
SyncRun == op = "run_sync_once"

\* where the verification is in the log, or past its end
VerifyAt ==
    IF \E k \in 1..Len(log) : log[k].call = "get_field_defaults"
    THEN CHOOSE k \in 1..Len(log) : log[k].call = "get_field_defaults"
    ELSE Len(log) + 1

\* the step a call of the log belongs to, and its place within the step
StepOf(k) ==
    CASE log[k].call = "find_board_id" -> IF k < VerifyAt THEN 1 ELSE 8
      [] log[k].call = "find_sprint_id" -> 2
      [] log[k].call = "create_sprint" -> IF k < VerifyAt THEN 3 ELSE 9
      [] log[k].call = "find_project_id" -> 4
      [] log[k].call = "get_project_fields" -> 5
      [] log[k].call \in {"get_defaults", "delete_default", "add_default"} -> 6
      [] log[k].call = "get_field_defaults" -> 7
      [] log[k].call = "sprint_exists" -> 9

CallFailed(e) == e.status \in {403, 500}

SameCall(a, b) == a.call = b.call /\ a.name = b.name /\ a.id = b.id

IsPrefixOf(s, t) == Len(s) <= Len(t) /\ SubSeq(t, 1, Len(s)) = s

RunEndedOk == pc \in {"done", "exited"} /\ outcome = "ok"

RunFailed == pc \in {"done", "exited"} /\ outcome \notin {"ok", "exit0"}

C31_StepsInOrderAndFailureStops ==
    /\ [](SyncRun =>
            /\ \A k, j \in 1..Len(log) :
                  k < j =>
                      /\ StepOf(k) <= StepOf(j)
                      /\ ~CallFailed(log[k])
                      /\ ~(StepOf(k) = StepOf(j) /\ SameCall(log[k], log[j]))
            /\ RunEndedOk =>
                  /\ {StepOf(k) : k \in 1..Len(log)} \ {3, 9}
                        = {1, 2, 4, 5, 6, 7} \cup
                              (IF args.forward > 0 THEN {8} ELSE {})
                  /\ args.forward > 0 =>
                        \E k \in 1..Len(log) : StepOf(k) = 9
            /\ (pc \in {"done", "exited"} /\ loc.sprint_name = "") =>
                  log = << >>)
    /\ [][SyncRun =>
            /\ IsPrefixOf(sprints, sprints')
            /\ IsPrefixOf(log, log')
            /\ RunFailed =>
                  (log' = log /\ sprints' = sprints /\ defaults' = defaults)]_vars

\* the run has created the sprint of the week and has then failed to find
\* the project: the sprint is on the board, nothing was called after
C31_Witness ==
    /\ SyncRun
    /\ Exited
    /\ outcome = "exit1"
    /\ Len(log) = 4
    /\ log[3].call = "create_sprint" /\ log[3].status = StatusOk
    /\ log[4].call = "find_project_id"
    /\ OnBoard(loc.sprint_name)

(***************************************************************************)
(* C32.  ensure_future_sprints stops at the first error: when the          *)
(* existence check or the create of a forward week fails, the call ends    *)
(* with that error, the weeks after it are neither checked nor created,    *)
(* and the sprints created for the weeks before it stay on the board.      *)
(***************************************************************************)
FutureRun == op = "ensure_future_sprints"

\* the weeks from the base week of the call on
FutureWeeks ==
    WeeksFrom(IF args.year = 2025 THEN "2025.30 Sprint" ELSE "2026.52 Sprint")

\* the round of the loop the k-th call of the log belongs to
RoundOf(k) ==
    Len(SelectSeq(SubSeq(log, 1, k), LAMBDA e : e.call = "sprint_exists"))

C32_ForwardStopsAtFirstError ==
    /\ [](FutureRun =>
            \A k \in 1..Len(log) :
                /\ CallFailed(log[k]) =>
                      /\ k = Len(log)
                      /\ pc = "done"
                      /\ outcome = "http_error"
                /\ (log[k].call = "create_sprint" /\ ~CallFailed(log[k])) =>
                      OnBoard(log[k].name))
    /\ [][FutureRun =>
            /\ IsPrefixOf(sprints, sprints')
            /\ RunFailed => sprints' = sprints]_vars

\* the check of the second of two forward weeks has failed after the first
\* was created: the call has ended with the error, the first is on the
\* board, the second is not
C32_Witness ==
    /\ FutureRun
    /\ args.forward = 2
    /\ Len(log) = 4
    /\ log[3] = CreateOf(FutureWeeks[2], StatusOk)
    /\ log[4].call = "sprint_exists" /\ CallFailed(log[4])
    /\ pc = "done" /\ outcome = "http_error"
    /\ OnBoard(FutureWeeks[2].name)
    /\ ~OnBoard(FutureWeeks[3].name)

(***************************************************************************)
(* C33.  ensure_future_sprints(board, base, count) checks the weeks base+1 *)
(* to base+count in ascending order, each with a read before any write for *)
(* it, creates exactly those whose name is not on the board and skips the  *)
(* others; it never creates the base week, and for count <= 0 it makes no  *)
(* gateway call.                                                           *)
(***************************************************************************)
\* the creates of the call that the server has applied
CreatedOk ==
    SelectSeq(log, LAMBDA e : e.call = "create_sprint" /\ ~CallFailed(e))

\* the sprints that were on the board when the call started
BoardBefore == SubSeq(sprints, 1, Len(sprints) - Len(CreatedOk))

WasOnBoard(name) == \E k \in 1..Len(BoardBefore) : BoardBefore[k].name = name

\* the check at k of the log is followed by a create
Followed(k) ==
    IF k < Len(log) THEN log[k + 1].call = "create_sprint"
    ELSE pc = "efs_create"

C33_ForwardChecksThenCreatesMissing ==
    FutureRun =>
        /\ args.forward <= 0 => (log = << >> /\ pc = "done" /\ outcome = "ok")
        /\ \A k \in 1..Len(log) :
            /\ log[k].call = "find_board_id" <=> k = 1
            /\ log[k].call = "sprint_exists" =>
                /\ RoundOf(k) <= args.forward
                /\ log[k].name = FutureWeeks[RoundOf(k) + 1].name
                /\ ~CallFailed(log[k]) =>
                      (Followed(k) <=> ~WasOnBoard(log[k].name))
            /\ log[k].call = "create_sprint" =>
                /\ k > 1
                /\ log[k - 1].call = "sprint_exists"
                /\ log[k] = CreateOf(FutureWeeks[RoundOf(k) + 1], log[k].status)
                /\ log[k].name # FutureWeeks[1].name
        /\ (pc = "done" /\ outcome = "ok" /\ args.forward > 0) =>
              Len(Issued("sprint_exists")) = args.forward

\* two forward weeks of 2026.52: 2026.53 was on the board and was skipped,
\* 2027.01 was not and was created
C33_Witness ==
    /\ FutureRun
    /\ pc = "done" /\ outcome = "ok"
    /\ args.forward = 2
    /\ args.year = 2026
    /\ WasOnBoard("2026.53 Sprint")
    /\ Len(Issued("sprint_exists")) = 2
    /\ Issued("create_sprint") = <<CreateOf(FutureWeeks[3], StatusOk)>>

(***************************************************************************)
(* C34.  When an addition of update_field_default_values fails after       *)
(* removals were applied, the call ends with the error, the removals stay  *)
(* applied, the additions still to make are not attempted and the remote   *)
(* defaults lack the desired value; a later run of the same call that      *)
(* meets no failure ends with the remote defaults equal to the desired     *)
(* set.                                                                    *)
(***************************************************************************)
\* the place in the log where the run that is going on (or ended last)
\* fetched the defaults
LastFetch ==
    CHOOSE k \in 1..Len(log) :
        /\ log[k].call = "get_defaults"
        /\ \A j \in (k + 1)..Len(log) : log[j].call # "get_defaults"

FailedAdd(k) == log[k].call = "add_default" /\ CallFailed(log[k])

AppliedDelete(j) == log[j].call = "delete_default" /\ log[j].status = StatusOk

\* the ids of the remote defaults (an entry without an id has none)
RemoteIds == defaults \ {<< >>}

C34_FailedAddLeavesRemovalsLaterRunConverges ==
    (op = "update_field_default_values" /\ log # << >>) =>
        /\ \A k \in 1..Len(log) :
            FailedAdd(k) =>
                IF k < Len(log) THEN log[k + 1].call = "get_defaults"
                ELSE /\ \/ /\ pc = "done" /\ outcome = "http_error"
                           /\ loc.to_add # << >>
                           /\ Head(loc.to_add) = log[k].id
                        \/ pc = "ufd_get" /\ runs > 1
                     /\ log[k].id \in Range(args.value_ids)
                     /\ log[k].id \notin defaults
                     /\ \A j \in LastFetch..k :
                            AppliedDelete(j) => log[j].id \notin defaults
        /\ (pc = "done" /\ \A k \in LastFetch..Len(log) : ~CallFailed(log[k])) =>
              /\ outcome = "ok"
              /\ RemoteIds = Range(args.value_ids)

\* the first run removed a default and then failed to add one; the later
\* run met no failure and has ended with the desired set
C34_Witness ==
    /\ op = "update_field_default_values"
    /\ pc = "done" /\ outcome = "ok"
    /\ Len(Issued("get_defaults")) = 2
    /\ \E k \in 1..(LastFetch - 1) :
          /\ FailedAdd(k)
          /\ k = LastFetch - 1
          /\ \E j \in 1..(k - 1) : AppliedDelete(j)
    /\ \E k \in LastFetch..Len(log) :
          log[k].call = "add_default" /\ log[k].status = StatusOk
    /\ RemoteIds = Range(args.value_ids)

(***************************************************************************)
(* C35.  A collection of the gauges that runs while a tick runs never sees *)
(* a torn value: for the status gauge it sees the value the gauge was last *)
(* set to by a tick's "finally", or 0 when none has set it, and for the    *)
(* seconds gauge NaN, when no tick had started at its test, or a number    *)
(* that is not negative.                                                   *)
(***************************************************************************)
\* the value the status gauge holds: that of the last set, or 0
LastSet == IF log = << >> THEN 0 ELSE log[Len(log)]

C35_GaugeReadsNeverTear ==
    /\ [](/\ loc.seconds.nan \/ loc.seconds.value >= 0
          /\ loc.collected => (loc.seconds.nan <=> loc.first = None)
          /\ (loc.collected /\ ~loc.seconds.nan /\ loc.now >= loc.second[1]) =>
                loc.seconds.value = loc.now - loc.second[1]
          /\ loc.status \in {0} \cup Range(log)
          /\ prev.status_gauge = LastSet)
    /\ [][loc'.status # loc.status => loc'.status = LastSet]_vars

\* a tick started between the read of the clock and the second read of
\* last_run_ts: the difference is negative and 0 was returned, while that
\* tick has written last_status and has not set the gauge yet
C35_Witness ==
    /\ loc.collected
    /\ ~loc.seconds.nan
    /\ loc.seconds.value = 0
    /\ loc.second # loc.first
    /\ loc.now < loc.second[1]
    /\ pc = "finally"
    /\ prev.last_status # prev.status_gauge
    /\ loc.status = prev.status_gauge

(***************************************************************************)
(* C36.  The job's first run time is the time the scheduler is started:    *)
(* the job runs once at startup without waiting for the first instant that *)
(* matches the cron expression, and its run times after that are the       *)
(* matching instants, each of them once and none left out.                 *)
(***************************************************************************)
\* the run times the scheduler has dealt with: run, dropped or skipped
Scheduled == Whats("run") \cup Whats("missed") \cup Whats("skipped")

StartedAt == log[CHOOSE i \in Whats("scheduler.start") : TRUE].at

IsCronInstant(t) == t % CronPeriod = 0

\* a worker has still to deal with the run time
Queued(t) ==
    \E w \in 1..Len(prev.workers) :
        \E k \in 1..Len(prev.workers[w]) : prev.workers[w][k] = t

C36_FirstRunAtStartupThenCronInstants ==
    Scheduled # {} =>
        LET first == CHOOSE i \in Scheduled : \A j \in Scheduled : i <= j
        IN  /\ log[first].run_time = StartedAt
            /\ log[first].what = "run" <=> Late(first) <= MisfireGrace
            /\ \A i \in Scheduled :
                /\ i # first =>
                    /\ log[i].run_time > StartedAt
                    /\ IsCronInstant(log[i].run_time)
                /\ \A j \in Scheduled :
                      log[i].run_time = log[j].run_time => i = j
                /\ \A t \in (StartedAt + 1)..(log[i].run_time - 1) :
                      IsCronInstant(t) =>
                          \/ \E j \in Scheduled : log[j].run_time = t
                          \/ Queued(t)

\* the job ran when the scheduler was started, which was no instant of the
\* cron expression, and ran again at the first instant that matches
C36_Witness ==
    /\ Whats("scheduler.start") # {}
    /\ ~IsCronInstant(StartedAt)
    /\ \E i, j \in Whats("run") :
        /\ log[i].run_time = StartedAt /\ log[i].at = StartedAt
        /\ log[j].run_time = get_next_fire_time(StartedAt)
        /\ log[j].at = log[j].run_time

(***************************************************************************)
(* C37.  With no failed call and nobody else editing, the version of       *)
(* update_field_default_values that issues the difference and the version  *)
(* that deletes every default and adds every id leave the same remote      *)
(* defaults, for every default set and every list of ids, and the deletes  *)
(* and adds of the first are among those of the second.                    *)
(***************************************************************************)
\* the deletes and the adds of a log: what was called, and for which id
Writes(l) ==
    {<<l[k].call, l[k].id>> :
        k \in {j \in 1..Len(l) :
                  l[j].call \in {"delete_default", "add_default"}}}

BothEndedOk ==
    /\ pc = "done" /\ outcome = "ok"
    /\ prev.pc = "done" /\ prev.outcome = "ok"

C37_DiffAndDeleteAllAgree ==
    BothEndedOk =>
        /\ defaults = prev.defaults
        /\ RemoteIds = Range(args.value_ids)
        /\ Writes(log) \subseteq Writes(prev.log)

\* both have ended on defaults of which one was to go and one to stay: the
\* first version issued one delete and one add, the second more than that
C37_Witness ==
    /\ BothEndedOk
    /\ Len(Issued("delete_default")) = 1
    /\ Len(Issued("add_default")) = 1
    /\ Writes(log) # Writes(prev.log)
    /\ \E v \in Range(args.value_ids) : v \in Issued("get_defaults")[1].ids
    /\ << >> \in defaults

(***************************************************************************)
(* C38.  ensure_sprint_on_board and sprint_exists agree on whether a       *)
(* sprint is on the board: for every list of sprints the board returns,    *)
(* ensure_sprint_on_board issues a create exactly when sprint_exists is    *)
(* false for the same name, also when the entry of that name carries an    *)
(* empty id or no id.                                                      *)
(***************************************************************************)
EnsureRun == op = "ensure_sprint_on_board"

\* what sprint_exists returns on the list ensure_sprint_on_board was given
ExistsBefore == sprint_exists(top(BoardBefore, TopLookup), loc.sprint_name)

\* the entry find_sprint_id stops at
Matched ==
    BoardBefore[CHOOSE k \in 1..Len(BoardBefore) :
                    /\ BoardBefore[k].name = loc.sprint_name
                    /\ \A h \in 1..(k - 1) :
                          BoardBefore[h].name # loc.sprint_name]

C38_CreateExactlyWhenSprintExistsIsFalse ==
    EnsureRun =>
        /\ pc = "esb_create" => ~ExistsBefore
        /\ (pc = "done" /\ outcome = "ok") =>
              (Issued("create_sprint") # << >> <=> ~ExistsBefore)

\* the entry of the name carries an empty id: sprint_exists is true of the
\* list, and ensure_sprint_on_board has created the sprint again
C38_Witness ==
    /\ EnsureRun
    /\ pc = "done" /\ outcome = "ok"
    /\ Len(Issued("create_sprint")) = 1
    /\ ExistsBefore
    /\ WasOnBoard(loc.sprint_name)
    /\ "id" \in DOMAIN Matched
    /\ Matched.id = ""

====
